---- MODULE Spec2Model ----
(***************************************************************************)
(* A model of the transport/dispatch core of the gitlab client library     *)
(* (src/src/gitlab.rs): the client builder, the constructors and new_impl, *)
(* and the sync/async dispatch (send, graphql, rest_auth).                 *)
(***************************************************************************)
EXTENDS Integers, Sequences, FiniteSets, TLC

VARIABLES builder, ctor, gitlab, asyncGitlab, impersonation, call, draft,
          built_endpoint

vars ==
    <<builder, ctor, gitlab, asyncGitlab, impersonation, call, draft, built_endpoint>>

(***************************************************************************)
(* Bounds.                                                                 *)
(***************************************************************************)
\* Longest PEM bundle (number of certificates) handed to new_self_signed.
MaxBundle == 2
\* Longest errors list of a GraphQL response envelope.
MaxErrors == 1

(***************************************************************************)
(* Option and Result values.                                               *)
(***************************************************************************)
None == [tag |-> "None"]
Some(x) == [tag |-> "Some", value |-> x]
Ok(v) == [ok |-> TRUE, value |-> v]
Err(e) == [ok |-> FALSE, error |-> e]

\* All sequences over S of length at most n.
SeqsUpTo(S, n) == UNION {[1..k -> S] : k \in 0..n}

(***************************************************************************)
(* Input domains.                                                          *)
(***************************************************************************)
\* Secrets are character sequences; the second holds a line feed.
Secrets == {<<"t", "1">>, <<"t", "\n">>}
Hosts == {"gitlab.example", "bad host"}
Protocols == {"https", "http"}
\* Raw certificate / key material as handed to the builder and constructors.
CertBytes == {"good", "junk"}
Passwords == {"pw"}
Statuses == {100, 200, 499, 500, 599, 600}
Queries == {"QueryA", "QueryB"}
ErrMsgs == {"e1", "e2"}

(***************************************************************************)
(* Auth (crate::auth, used by gitlab.rs).                                  *)
(***************************************************************************)
AuthNone == [kind |-> "None", secret |-> <<>>]
AuthToken(s) == [kind |-> "Token", secret |-> s]
AuthJobToken(s) == [kind |-> "JobToken", secret |-> s]
AuthOAuth2(s) == [kind |-> "OAuth2", secret |-> s]

\* A header value may hold no control character.
HeaderValueLegal(s) == \A i \in 1..Len(s) : s[i] # "\n"

\* HeaderMap::insert: the new value replaces every value under that name.
HeaderInsert(headers, name, value) ==
    SelectSeq(headers, LAMBDA h : h.name # name)
        \o <<[name |-> name, value |-> value]>>

\* Auth::set_header: one canonical header per variant, none for None.
set_header(auth, headers) ==
    IF auth.kind = "None" THEN Ok(headers)
    ELSE IF ~HeaderValueLegal(auth.secret)
        THEN Err([kind |-> "AuthError"])
    ELSE IF auth.kind = "Token"
        THEN Ok(HeaderInsert(headers, "PRIVATE-TOKEN", auth.secret))
    ELSE IF auth.kind = "JobToken"
        THEN Ok(HeaderInsert(headers, "JOB-TOKEN", auth.secret))
    ELSE Ok(HeaderInsert(headers, "Authorization", <<"Bearer ">> \o auth.secret))

(***************************************************************************)
(* URLs.                                                                   *)
(***************************************************************************)
\* Url::parse(format!("{}://{}<path>", protocol, host)).
UrlParse(protocol, host, path) ==
    IF host = "bad host" THEN Err([kind |-> "UrlParse"])
    ELSE Ok([scheme |-> protocol, host |-> host, path |-> path])

\* Url::join of a relative path: the last segment of the base is replaced.
UrlJoin(base, rel) ==
    [base EXCEPT !.path = SubSeq(base.path, 1, Len(base.path) - 1) \o rel]

(***************************************************************************)
(* TLS / identity policy.                                                  *)
(***************************************************************************)
CertDefault == [policy |-> "Default"]
CertInsecure == [policy |-> "Insecure"]
CertSelfSigned(root) == [policy |-> "SelfSigned", root |-> root]

RootDer(b) == [format |-> "Der", bytes |-> b]
RootPem(b) == [format |-> "Pem", bytes |-> b]
RootPemBundle(bs) == [format |-> "PemBundle", bytes |-> bs]
RootCertificates ==
    {RootDer(b) : b \in CertBytes} \cup {RootPem(b) : b \in CertBytes}
        \cup {RootPemBundle(bs) : bs \in SeqsUpTo(CertBytes, MaxBundle)}

ClientCertNone == [format |-> "None"]
ClientCertDer(b, pw) == [format |-> "Der", bytes |-> b, password |-> pw]
ClientCertPem(b) == [format |-> "Pem", bytes |-> b]

\* TlsIdentity::from_pkcs12_der / TlsIdentity::from_pem.
ParseIdentity(identity) ==
    IF identity.bytes = "good"
        THEN Ok([format |-> identity.format, bytes |-> identity.bytes])
        ELSE Err([kind |-> "Communication", source |-> "identity"])

\* Certificate::from_der / Certificate::from_pem.
ParseCertificate(format, bytes) ==
    IF bytes = "good"
        THEN Ok([format |-> format, bytes |-> bytes])
        ELSE Err([kind |-> "Communication", source |-> "certificate"])

\* A from_pem_bundle that skips the certificates it cannot parse.
from_pem_bundle_skip_bad(bundle) ==
    LET good == SelectSeq(bundle, LAMBDA b : ParseCertificate("Pem", b).ok) IN
    Ok([i \in 1..Len(good) |-> ParseCertificate("Pem", good[i]).value])

\* Certificate::from_pem_bundle: every certificate of the bundle, or an error.
from_pem_bundle(bundle) ==
    IF \E i \in 1..Len(bundle) : ~ParseCertificate("Pem", bundle[i]).ok
        THEN Err([kind |-> "Communication", source |-> "certificate"])
        ELSE Ok([i \in 1..Len(bundle) |-> ParseCertificate("Pem", bundle[i]).value])

\* A reqwest client as configured by its builder.
Transport(insecure, identity, roots) ==
    [accept_invalid_certs |-> insecure, identity |-> identity, roots |-> roots]

BackendError == Err([kind |-> "Communication", source |-> "builder"])

(***************************************************************************)
(* Transport outcomes: what the network does with one request.             *)
(***************************************************************************)
Absent == [tag |-> "Absent"]
Null == [tag |-> "Null"]
Malformed == [tag |-> "Malformed"]
NotJson == [tag |-> "NotJson"]

\* The "data" member of a response body: missing, null, or a value shaped as
\* the ResponseData of one query.
DataFields == {Absent, Null} \cup {[tag |-> "Value", shape |-> q] : q \in Queries}
\* The "errors" member: missing, null, not a list, or a list of errors.
ErrorFields ==
    {Absent, Null, Malformed}
        \cup {[tag |-> "List", items |-> l] : l \in SeqsUpTo(ErrMsgs, MaxErrors)}
Bodies ==
    {NotJson}
        \cup {[tag |-> "Object", data |-> d, errors |-> e] :
                d \in DataFields, e \in ErrorFields}

RspHeaders ==
    {<<>>,
     <<[name |-> "set-cookie", value |-> "a"], [name |-> "set-cookie", value |-> "b"]>>}

SendFailure == [sent |-> FALSE]
Reply(status, headers, body, readOk) ==
    [sent |-> TRUE, status |-> status, version |-> "HTTP/1.1", headers |-> headers,
     body |-> body, readOk |-> readOk]
Outcomes ==
    {SendFailure}
        \cup {Reply(st, hs, b, r) :
                st \in Statuses, hs \in RspHeaders, b \in Bodies, r \in BOOLEAN}

\* A server-error test that misses status 500.
is_server_error_above_500(status) == 500 < status /\ status < 600

\* StatusCode::is_server_error / StatusCode::is_success.
is_server_error(status) == 500 <= status /\ status < 600
is_success(status) == 200 <= status /\ status < 300

(***************************************************************************)
(* Decoding a body as graphql_client::Response<Q::ResponseData>.           *)
(***************************************************************************)
TypeName(q) == <<"graphql_client::Response", q>>

\* serde_json::from_reader / from_slice into Response<ResponseData of q>:
\* an Option member is None when missing or null.
DecodeResponse(q, body) ==
    IF body.tag # "Object" THEN Err("syntax")
    ELSE IF body.errors.tag = "Malformed" THEN Err("data")
    ELSE IF body.data.tag = "Value" /\ body.data.shape # q THEN Err("data")
    ELSE Ok([data |-> IF body.data.tag = "Value" THEN Some(body.data) ELSE None,
             errors |-> IF body.errors.tag = "List"
                            THEN Some(body.errors.items) ELSE None])

\* A data_type that names the envelope without its type parameter.
data_type_unnamed(q, source) ==
    [kind |-> "DataType", source |-> source, typename |-> <<"graphql_client::Response">>]

\* GitlabError::data_type::<T>.
data_type(q, source) == [kind |-> "DataType", source |-> source, typename |-> TypeName(q)]

\* What one dispatch call did: its result, the requests it put on the wire,
\* whether it read the response body, and (graphql) what send returned to it.
Done(result, wire, bodyRead) ==
    [result |-> result, wire |-> wire, bodyRead |-> bodyRead, rsp |-> None]
OnWire(self, request) == [transport |-> self.client, request |-> request]
Panic == [ok |-> FALSE, error |-> [kind |-> "Panic"]]

(***************************************************************************)
(* Gitlab::send and AsyncGitlab::send.                                     *)
(***************************************************************************)
\* RequestBuilder::headers: the given headers replace those of the same name.
WithHeaders(req, headers) ==
    LET merge[i \in 0..Len(headers)] ==
            IF i = 0 THEN req.headers
            ELSE HeaderInsert(merge[i - 1], headers[i].name, headers[i].value)
    IN  [req EXCEPT !.headers = merge[Len(headers)]]

\* A send that would try once more after a transport failure.
Gitlab_send_retry(self, req, q, outcome) ==
    LET auth_headers == set_header(self.auth, <<>>) IN
    IF ~auth_headers.ok THEN Done(Err(auth_headers.error), <<>>, FALSE)
    ELSE LET wire == <<OnWire(self, WithHeaders(req, auth_headers.value))>> IN
    IF ~outcome.sent
        THEN Done(Err([kind |-> "Communication", source |-> "send"]), wire \o wire, FALSE)
    ELSE IF is_server_error(outcome.status)
        THEN Done(Err([kind |-> "Http", status |-> outcome.status]), wire, FALSE)
    ELSE IF ~outcome.readOk
        THEN Done(Err(data_type(q, "io")), wire, TRUE)
    ELSE LET rsp == DecodeResponse(q, outcome.body) IN
    IF rsp.ok THEN Done(Ok(rsp.value), wire, TRUE)
    ELSE Done(Err(data_type(q, rsp.error)), wire, TRUE)

Gitlab_send(self, req, q, outcome) ==
    LET auth_headers == set_header(self.auth, <<>>) IN
    IF ~auth_headers.ok THEN Done(Err(auth_headers.error), <<>>, FALSE)
    ELSE LET wire == <<OnWire(self, WithHeaders(req, auth_headers.value))>> IN
    IF ~outcome.sent
        THEN Done(Err([kind |-> "Communication", source |-> "send"]), wire, FALSE)
    ELSE IF is_server_error(outcome.status)
        THEN Done(Err([kind |-> "Http", status |-> outcome.status]), wire, FALSE)
    \* serde_json::from_reader reads the body itself: a failed read is an
    \* error of the deserializer.
    ELSE IF ~outcome.readOk
        THEN Done(Err(data_type(q, "io")), wire, TRUE)
    ELSE LET rsp == DecodeResponse(q, outcome.body) IN
    IF rsp.ok THEN Done(Ok(rsp.value), wire, TRUE)
    ELSE Done(Err(data_type(q, rsp.error)), wire, TRUE)

AsyncGitlab_send(self, req, q, outcome) ==
    LET auth_headers == set_header(self.auth, <<>>) IN
    IF ~auth_headers.ok THEN Done(Err(auth_headers.error), <<>>, FALSE)
    ELSE LET wire == <<OnWire(self, WithHeaders(req, auth_headers.value))>> IN
    IF ~outcome.sent
        THEN Done(Err([kind |-> "Communication", source |-> "send"]), wire, FALSE)
    ELSE IF is_server_error(outcome.status)
        THEN Done(Err([kind |-> "Http", status |-> outcome.status]), wire, FALSE)
    \* rsp.bytes().await? reads the body before serde_json::from_slice.
    ELSE IF ~outcome.readOk
        THEN Done(Err([kind |-> "Communication", source |-> "body"]), wire, TRUE)
    ELSE LET rsp == DecodeResponse(q, outcome.body) IN
    IF rsp.ok THEN Done(Ok(rsp.value), wire, TRUE)
    ELSE Done(Err(data_type(q, rsp.error)), wire, TRUE)

(***************************************************************************)
(* Gitlab::graphql and AsyncGitlab::graphql.                               *)
(***************************************************************************)
\* self.client.post(self.graphql_url.clone()).json(query)
GraphqlRequest(self, q) ==
    [method |-> "POST", url |-> self.graphql_url,
     headers |-> <<[name |-> "content-type", value |-> "application/json"]>>,
     body |-> [operationName |-> q]]

\* A graphql that looks at data before errors.
GraphqlResult_data_first(rsp) ==
    IF rsp.data.tag = "Some" THEN Ok(rsp.data.value)
    ELSE IF rsp.errors.tag = "Some"
        THEN Err([kind |-> "GraphQL", message |-> rsp.errors.value])
    ELSE Err([kind |-> "NoResponse"])

\* A graphql that lets an empty errors list through.
GraphqlResult_nonempty_only(rsp) ==
    IF rsp.errors.tag = "Some" /\ rsp.errors.value # <<>>
        THEN Err([kind |-> "GraphQL", message |-> rsp.errors.value])
    ELSE IF rsp.data.tag = "Some" THEN Ok(rsp.data.value)
    ELSE Err([kind |-> "NoResponse"])

\* The part of graphql after send: errors first, then data.
GraphqlResult(rsp) ==
    IF rsp.errors.tag = "Some" THEN Err([kind |-> "GraphQL", message |-> rsp.errors.value])
    ELSE IF rsp.data.tag = "Some" THEN Ok(rsp.data.value)
    ELSE Err([kind |-> "NoResponse"])

Gitlab_graphql(self, q, outcome) ==
    LET sent == Gitlab_send(self, GraphqlRequest(self, q), q, outcome) IN
    IF ~sent.result.ok THEN [sent EXCEPT !.rsp = sent.result]
    ELSE [sent EXCEPT !.result = GraphqlResult(sent.result.value),
                      !.rsp = sent.result]

AsyncGitlab_graphql(self, q, outcome) ==
    LET sent == AsyncGitlab_send(self, GraphqlRequest(self, q), q, outcome) IN
    IF ~sent.result.ok THEN [sent EXCEPT !.rsp = sent.result]
    ELSE [sent EXCEPT !.result = GraphqlResult(sent.result.value),
                      !.rsp = sent.result]

(***************************************************************************)
(* Gitlab::rest_auth and AsyncGitlab::rest_async_auth.                     *)
(***************************************************************************)
\* api::ApiError::client
ApiErrorClient(source) == [kind |-> "ApiError::Client", source |-> source]

\* The response handed back: status, version, the headers copied one by one
\* with HeaderMap::insert, and the body bytes.
HttpResponse(outcome) ==
    LET copy[i \in 0..Len(outcome.headers)] ==
            IF i = 0 THEN <<>>
            ELSE HeaderInsert(copy[i - 1], outcome.headers[i].name,
                              outcome.headers[i].value)
    IN  [status |-> outcome.status, version |-> outcome.version,
         headers |-> copy[Len(outcome.headers)], body |-> outcome.body]

\* A rest_auth that would turn a server error status into an error.
Gitlab_rest_auth_classifying(self, request, body, auth, outcome) ==
    IF request.valid = "builder_error" THEN Done(Panic, <<>>, FALSE)
    ELSE LET headers == set_header(auth, request.headers) IN
    IF ~headers.ok
        THEN Done(Err(ApiErrorClient([kind |-> "AuthError"])), <<>>, FALSE)
    ELSE IF request.valid = "not_convertible"
        THEN Done(Err(ApiErrorClient([kind |-> "Communication", source |-> "convert"])),
                  <<>>, FALSE)
    ELSE LET wire ==
                <<OnWire(self, [method |-> request.method, url |-> request.url,
                                headers |-> headers.value, body |-> body])>> IN
    IF ~outcome.sent
        THEN Done(Err(ApiErrorClient([kind |-> "Communication", source |-> "send"])),
                  wire, FALSE)
    ELSE IF outcome.status \in 500..599
        THEN Done(Err([kind |-> "Http", status |-> outcome.status]), wire, FALSE)
    ELSE IF ~outcome.readOk
        THEN Done(Err(ApiErrorClient([kind |-> "Communication", source |-> "body"])),
                  wire, TRUE)
    ELSE Done(Ok(HttpResponse(outcome)), wire, TRUE)

\* request: an http::request::Builder; request.valid tells whether the builder
\* holds an error ("builder_error") and whether the finished request converts
\* to a reqwest request ("not_convertible").
Gitlab_rest_auth(self, request, body, auth, outcome) ==
    IF request.valid = "builder_error" THEN Done(Panic, <<>>, FALSE)
    ELSE LET headers == set_header(auth, request.headers) IN
    IF ~headers.ok
        THEN Done(Err(ApiErrorClient([kind |-> "AuthError"])), <<>>, FALSE)
    ELSE IF request.valid = "not_convertible"
        THEN Done(Err(ApiErrorClient([kind |-> "Communication", source |-> "convert"])),
                  <<>>, FALSE)
    ELSE LET wire ==
                <<OnWire(self, [method |-> request.method, url |-> request.url,
                                headers |-> headers.value, body |-> body])>> IN
    IF ~outcome.sent
        THEN Done(Err(ApiErrorClient([kind |-> "Communication", source |-> "send"])),
                  wire, FALSE)
    ELSE IF ~outcome.readOk
        THEN Done(Err(ApiErrorClient([kind |-> "Communication", source |-> "body"])),
                  wire, TRUE)
    ELSE Done(Ok(HttpResponse(outcome)), wire, TRUE)

\* A rest_async_auth that sends the request again when the first send fails.
AsyncGitlab_rest_async_auth_retry(self, request, body, auth, outcome) ==
    IF request.valid = "builder_error" THEN Done(Panic, <<>>, FALSE)
    ELSE LET headers == set_header(auth, request.headers) IN
    IF ~headers.ok
        THEN Done(Err(ApiErrorClient([kind |-> "AuthError"])), <<>>, FALSE)
    ELSE IF request.valid = "not_convertible"
        THEN Done(Err(ApiErrorClient([kind |-> "Communication", source |-> "convert"])),
                  <<>>, FALSE)
    ELSE LET wire ==
                <<OnWire(self, [method |-> request.method, url |-> request.url,
                                headers |-> headers.value, body |-> body])>> IN
    IF ~outcome.sent
        THEN Done(Err(ApiErrorClient([kind |-> "Communication", source |-> "send"])),
                  wire \o wire, FALSE)
    ELSE IF ~outcome.readOk
        THEN Done(Err(ApiErrorClient([kind |-> "Communication", source |-> "body"])),
                  wire, TRUE)
    ELSE Done(Ok(HttpResponse(outcome)), wire, TRUE)

AsyncGitlab_rest_async_auth(self, request, body, auth, outcome) ==
    IF request.valid = "builder_error" THEN Done(Panic, <<>>, FALSE)
    ELSE LET headers == set_header(auth, request.headers) IN
    IF ~headers.ok
        THEN Done(Err(ApiErrorClient([kind |-> "AuthError"])), <<>>, FALSE)
    ELSE IF request.valid = "not_convertible"
        THEN Done(Err(ApiErrorClient([kind |-> "Communication", source |-> "convert"])),
                  <<>>, FALSE)
    ELSE LET wire ==
                <<OnWire(self, [method |-> request.method, url |-> request.url,
                                headers |-> headers.value, body |-> body])>> IN
    IF ~outcome.sent
        THEN Done(Err(ApiErrorClient([kind |-> "Communication", source |-> "send"])),
                  wire, FALSE)
    ELSE IF ~outcome.readOk
        THEN Done(Err(ApiErrorClient([kind |-> "Communication", source |-> "body"])),
                  wire, TRUE)
    ELSE Done(Ok(HttpResponse(outcome)), wire, TRUE)

(***************************************************************************)
(* Auth::check_connection / Auth::check_connection_async: the probe.       *)
(***************************************************************************)
\* The probe: one authenticated GET of the current user.
ProbeRequest(api) ==
    [method |-> "GET", url |-> UrlJoin(api.rest_url, <<"user">>), headers |-> <<>>,
     valid |-> "ok"]

ProbeVerdict(sent) ==
    IF ~sent.result.ok THEN sent
    ELSE IF ~is_success(sent.result.value.status)
        THEN [sent EXCEPT !.result =
                Err([kind |-> "ApiError::Gitlab", status |-> sent.result.value.status])]
    ELSE [sent EXCEPT !.result = Ok("connected")]

\* A rest that sends the request unauthenticated.
Gitlab_rest_no_auth(self, request, body, outcome) ==
    Gitlab_rest_auth(self, request, body, AuthNone, outcome)

\* api::Client::rest for Gitlab: rest_auth with the client's own Auth.
Gitlab_rest(self, request, body, outcome) ==
    Gitlab_rest_auth(self, request, body, self.auth, outcome)

\* api::AsyncClient::rest_async for AsyncGitlab.
AsyncGitlab_rest_async(self, request, body, outcome) ==
    AsyncGitlab_rest_async_auth(self, request, body, self.auth, outcome)

check_connection(auth, api, outcome) ==
    ProbeVerdict(Gitlab_rest(api, ProbeRequest(api), <<>>, outcome))

check_connection_async(auth, api, outcome) ==
    ProbeVerdict(AsyncGitlab_rest_async(api, ProbeRequest(api), <<>>, outcome))

(***************************************************************************)
(* Gitlab::new_impl and AsyncGitlab::new_impl.                             *)
(***************************************************************************)
\* The match on cert_validation of Gitlab::new_impl: the blocking client and
\* the certificate material parsed on the way.
ResolveClient(cert_validation, identity, backendOk) ==
    IF cert_validation.policy = "Insecure"
        THEN [client |-> IF backendOk THEN Ok(Transport(TRUE, None, <<>>))
                         ELSE BackendError,
              events |-> <<>>]
    ELSE IF cert_validation.policy = "Default"
        THEN IF identity.format = "None"
                \* Client::new() panics when the builder fails.
                THEN [client |-> IF backendOk THEN Ok(Transport(FALSE, None, <<>>))
                                 ELSE Panic,
                      events |-> <<>>]
                ELSE LET id == ParseIdentity(identity) IN
                     [client |-> IF ~id.ok THEN id
                                 ELSE IF backendOk
                                    THEN Ok(Transport(FALSE, Some(id.value), <<>>))
                                 ELSE BackendError,
                      events |-> <<"parse_identity">>]
    ELSE LET root == cert_validation.root
             certs == IF root.format = "PemBundle" THEN from_pem_bundle(root.bytes)
                      ELSE LET c == ParseCertificate(root.format, root.bytes) IN
                           IF c.ok THEN Ok(<<c.value>>) ELSE c
         IN  [client |-> IF ~certs.ok THEN certs
                         ELSE IF backendOk THEN Ok(Transport(FALSE, None, certs.value))
                         ELSE BackendError,
              events |-> <<"parse_root">>]

\* The same match in AsyncGitlab::new_impl.
ResolveAsyncClient(cert_validation, identity, backendOk) ==
    IF cert_validation.policy = "Insecure"
        THEN [client |-> IF backendOk THEN Ok(Transport(TRUE, None, <<>>))
                         ELSE BackendError,
              events |-> <<>>]
    ELSE IF cert_validation.policy = "Default"
        THEN IF identity.format = "None"
                THEN [client |-> IF backendOk THEN Ok(Transport(FALSE, None, <<>>))
                                 ELSE Panic,
                      events |-> <<>>]
                ELSE LET id == ParseIdentity(identity) IN
                     [client |-> IF ~id.ok THEN id
                                 ELSE IF backendOk
                                    THEN Ok(Transport(FALSE, Some(id.value), <<>>))
                                 ELSE BackendError,
                      events |-> <<"parse_identity">>]
    ELSE LET root == cert_validation.root
             certs == IF root.format = "PemBundle" THEN from_pem_bundle(root.bytes)
                      ELSE LET c == ParseCertificate(root.format, root.bytes) IN
                           IF c.ok THEN Ok(<<c.value>>) ELSE c
         IN  [client |-> IF ~certs.ok THEN certs
                         ELSE IF backendOk THEN Ok(Transport(FALSE, None, certs.value))
                         ELSE BackendError,
              events |-> <<"parse_root">>]

\* What a constructor call did: its result, the steps it took in order, and
\* the requests its probe put on the wire.
Built(result, events, wire) == [result |-> result, events |-> events, wire |-> wire]

\* A new_impl that would resolve the transport before it parses the base URLs.
Gitlab_new_impl_resolve_first(protocol, host, auth, cert_validation, identity, backendOk, outcome) ==
    LET resolved == ResolveClient(cert_validation, identity, backendOk)
        rest_url == UrlParse(protocol, host, <<"api", "v4", "">>)
        graphql_url == UrlParse(protocol, host, <<"api", "graphql">>)
        events == resolved.events \o <<"url_parse">>
    IN
    IF ~resolved.client.ok THEN Built(resolved.client, resolved.events, <<>>)
    ELSE IF ~rest_url.ok THEN Built(rest_url, events, <<>>)
    ELSE IF ~graphql_url.ok THEN Built(graphql_url, events, <<>>)
    ELSE LET api == [client |-> resolved.client.value, rest_url |-> rest_url.value,
                     graphql_url |-> graphql_url.value, auth |-> auth]
             probe == check_connection(api.auth, api, outcome)
         IN
    IF ~probe.result.ok
        THEN Built(IF probe.result.error.kind = "Panic" THEN Panic
                   ELSE Err([kind |-> "Api", source |-> probe.result.error]),
                   events \o <<"probe">>, probe.wire)
    ELSE Built(Ok(api), events \o <<"probe">>, probe.wire)

Gitlab_new_impl(protocol, host, auth, cert_validation, identity, backendOk, outcome) ==
    LET rest_url == UrlParse(protocol, host, <<"api", "v4", "">>)
        graphql_url == UrlParse(protocol, host, <<"api", "graphql">>)
    IN
    IF ~rest_url.ok THEN Built(rest_url, <<"url_parse">>, <<>>)
    ELSE IF ~graphql_url.ok THEN Built(graphql_url, <<"url_parse">>, <<>>)
    ELSE LET resolved == ResolveClient(cert_validation, identity, backendOk)
             events == <<"url_parse">> \o resolved.events
         IN
    IF ~resolved.client.ok THEN Built(resolved.client, events, <<>>)
    ELSE LET api == [client |-> resolved.client.value, rest_url |-> rest_url.value,
                     graphql_url |-> graphql_url.value, auth |-> auth]
             probe == check_connection(api.auth, api, outcome)
         IN
    IF ~probe.result.ok
        THEN Built(IF probe.result.error.kind = "Panic" THEN Panic
                   ELSE Err([kind |-> "Api", source |-> probe.result.error]),
                   events \o <<"probe">>, probe.wire)
    ELSE Built(Ok(api), events \o <<"probe">>, probe.wire)

AsyncGitlab_new_impl(protocol, host, auth, cert_validation, identity, backendOk, outcome) ==
    LET instance_url == UrlParse(protocol, host, <<"">>)
        rest_url == UrlParse(protocol, host, <<"api", "v4", "">>)
        graphql_url == UrlParse(protocol, host, <<"api", "graphql">>)
    IN
    IF ~instance_url.ok THEN Built(instance_url, <<"url_parse">>, <<>>)
    ELSE IF ~rest_url.ok THEN Built(rest_url, <<"url_parse">>, <<>>)
    ELSE IF ~graphql_url.ok THEN Built(graphql_url, <<"url_parse">>, <<>>)
    ELSE LET resolved == ResolveAsyncClient(cert_validation, identity, backendOk)
             events == <<"url_parse">> \o resolved.events
         IN
    IF ~resolved.client.ok THEN Built(resolved.client, events, <<>>)
    ELSE LET api == [client |-> resolved.client.value,
                     instance_url |-> instance_url.value,
                     rest_url |-> rest_url.value,
                     graphql_url |-> graphql_url.value, auth |-> auth]
             probe == check_connection_async(api.auth, api, outcome)
         IN
    IF ~probe.result.ok
        THEN Built(IF probe.result.error.kind = "Panic" THEN Panic
                   ELSE Err([kind |-> "Api", source |-> probe.result.error]),
                   events \o <<"probe">>, probe.wire)
    ELSE Built(Ok(api), events \o <<"probe">>, probe.wire)

(***************************************************************************)
(* State.                                                                  *)
(*   builder       the GitlabBuilder the caller holds, or None             *)
(*   ctor          the latest constructor call: its configuration, where   *)
(*                 it stands, the steps it took, the probe it put on the   *)
(*                 wire with the transport's outcome, what it returned,    *)
(*                 and whether another task ran while it was suspended     *)
(*   gitlab        the Gitlab the caller holds, or None                    *)
(*   asyncGitlab   the AsyncGitlab the caller holds, or None               *)
(*   impersonation the ImpersonationClient the caller holds, or None       *)
(*   call          the latest dispatch call, or None                       *)
(*   draft         the endpoint builder the caller holds, or None          *)
(*   built_endpoint  what the latest build() of an endpoint builder        *)
(*                 returned, or None                                       *)
(***************************************************************************)
Idle ==
    [kind |-> "none", pc |-> "idle", cert_validation |-> CertDefault,
     identity |-> ClientCertNone, result |-> None, events |-> <<>>, wire |-> <<>>,
     outcome |-> None, polled |-> FALSE]

\* No constructor future is suspended (one borrows the builder while it is).
NotAwaiting == ctor.pc # "await_probe"

\* The probe's replies: accepted, cut short while the body is read, refused.
Accepted == Reply(200, <<>>, NotJson, TRUE)
ProbeOutcomes ==
    {SendFailure, Accepted, Reply(200, <<>>, NotJson, FALSE)}
        \cup {Reply(500, <<>>, NotJson, TRUE)}

(***************************************************************************)
(* GitlabBuilder.                                                          *)
(***************************************************************************)
GitlabBuilder_new(host, token) ==
    /\ NotAwaiting
    /\ builder' = [protocol |-> "https", host |-> host, token |-> AuthToken(token),
                   cert_validation |-> CertDefault, identity |-> ClientCertNone]
    /\ UNCHANGED <<ctor, gitlab, asyncGitlab, impersonation, call, draft, built_endpoint>>

GitlabBuilder_new_unauthenticated(host) ==
    /\ NotAwaiting
    /\ builder' = [protocol |-> "https", host |-> host, token |-> AuthNone,
                   cert_validation |-> CertDefault, identity |-> ClientCertNone]
    /\ UNCHANGED <<ctor, gitlab, asyncGitlab, impersonation, call, draft, built_endpoint>>

\* An insecure() that would switch certificate validation off as well.
GitlabBuilder_insecure_all ==
    /\ NotAwaiting
    /\ builder # None
    /\ builder' = [builder EXCEPT !.protocol = "http", !.cert_validation = CertInsecure]
    /\ UNCHANGED <<ctor, gitlab, asyncGitlab, impersonation, call, draft, built_endpoint>>

GitlabBuilder_insecure ==
    /\ NotAwaiting
    /\ builder # None
    /\ builder' = [builder EXCEPT !.protocol = "http"]
    /\ UNCHANGED <<ctor, gitlab, asyncGitlab, impersonation, call, draft, built_endpoint>>

GitlabBuilder_cert_insecure ==
    /\ NotAwaiting
    /\ builder # None
    /\ builder' = [builder EXCEPT !.cert_validation = CertInsecure]
    /\ UNCHANGED <<ctor, gitlab, asyncGitlab, impersonation, call, draft, built_endpoint>>

\* An oauth2_token that would turn every token into an OAuth2 token.
GitlabBuilder_oauth2_token_any ==
    /\ NotAwaiting
    /\ builder # None
    /\ builder' = [builder EXCEPT !.token = AuthOAuth2(builder.token.secret)]
    /\ UNCHANGED <<ctor, gitlab, asyncGitlab, impersonation, call, draft, built_endpoint>>

GitlabBuilder_oauth2_token ==
    /\ NotAwaiting
    /\ builder # None
    /\ builder' = IF builder.token.kind = "Token"
                    THEN [builder EXCEPT !.token = AuthOAuth2(builder.token.secret)]
                    ELSE builder
    /\ UNCHANGED <<ctor, gitlab, asyncGitlab, impersonation, call, draft, built_endpoint>>

GitlabBuilder_client_identity_from_der(der, password) ==
    /\ NotAwaiting
    /\ builder # None
    /\ builder' = [builder EXCEPT !.identity = ClientCertDer(der, password)]
    /\ UNCHANGED <<ctor, gitlab, asyncGitlab, impersonation, call, draft, built_endpoint>>

GitlabBuilder_client_identity_from_pem(pem) ==
    /\ NotAwaiting
    /\ builder # None
    /\ builder' = [builder EXCEPT !.identity = ClientCertPem(pem)]
    /\ UNCHANGED <<ctor, gitlab, asyncGitlab, impersonation, call, draft, built_endpoint>>

(***************************************************************************)
(* Constructor calls.                                                      *)
(***************************************************************************)
\* A blocking constructor call: it runs to its return on the caller's thread.
Construct(protocol, host, auth, cert_validation, identity, backendOk, outcome) ==
    LET b == Gitlab_new_impl(protocol, host, auth, cert_validation, identity,
                             backendOk, outcome)
    IN  /\ NotAwaiting
        /\ ctor' = [kind |-> "sync", pc |-> "done",
                    cert_validation |-> cert_validation, identity |-> identity,
                    result |-> b.result, events |-> b.events, wire |-> b.wire,
                    outcome |-> IF b.wire = <<>> THEN None ELSE outcome,
                    polled |-> FALSE]
        /\ gitlab' = IF b.result.ok THEN b.result.value ELSE None
        /\ asyncGitlab' = None
        /\ impersonation' = None
        /\ call' = None
        /\ UNCHANGED <<builder, draft, built_endpoint>>

Gitlab_new(host, token, backendOk, outcome) ==
    Construct("https", host, AuthToken(token), CertDefault, ClientCertNone,
              backendOk, outcome)

Gitlab_new_insecure(host, token, backendOk, outcome) ==
    Construct("http", host, AuthToken(token), CertInsecure, ClientCertNone,
              backendOk, outcome)

\* A new_self_signed that would pass a client identity beside the root.
Gitlab_new_self_signed_with_identity(host, token, root_certificate, backendOk, outcome) ==
    Construct("https", host, AuthToken(token), CertSelfSigned(root_certificate),
              ClientCertPem("good"), backendOk, outcome)

Gitlab_new_self_signed(host, token, root_certificate, backendOk, outcome) ==
    Construct("https", host, AuthToken(token), CertSelfSigned(root_certificate),
              ClientCertNone, backendOk, outcome)

Gitlab_new_job_token(host, token, backendOk, outcome) ==
    Construct("https", host, AuthJobToken(token), CertDefault, ClientCertNone,
              backendOk, outcome)

Gitlab_new_job_token_insecure(host, token, backendOk, outcome) ==
    Construct("http", host, AuthJobToken(token), CertInsecure, ClientCertNone,
              backendOk, outcome)

Gitlab_with_oauth2(host, token, backendOk, outcome) ==
    Construct("https", host, AuthOAuth2(token), CertDefault, ClientCertNone,
              backendOk, outcome)

Gitlab_with_oauth2_insecure(host, token, backendOk, outcome) ==
    Construct("http", host, AuthOAuth2(token), CertDefault, ClientCertNone,
              backendOk, outcome)

GitlabBuilder_build(backendOk, outcome) ==
    /\ builder # None
    /\ Construct(builder.protocol, builder.host, builder.token,
                 builder.cert_validation, builder.identity, backendOk, outcome)

\* build_async up to the first point where AsyncGitlab::new_impl waits for
\* the network: the probe request is on the wire and the future is suspended;
\* a call that fails before that completes at once.
GitlabBuilder_build_async(backendOk) ==
    /\ builder # None
    /\ NotAwaiting
    /\ LET b == AsyncGitlab_new_impl(builder.protocol, builder.host, builder.token,
                                     builder.cert_validation, builder.identity,
                                     backendOk, SendFailure)
       IN  ctor' = [kind |-> "async",
                    pc |-> IF b.wire = <<>> THEN "done" ELSE "await_probe",
                    cert_validation |-> builder.cert_validation,
                    identity |-> builder.identity,
                    result |-> IF b.wire = <<>> THEN b.result ELSE None,
                    events |-> b.events, wire |-> b.wire, outcome |-> None,
                    polled |-> FALSE]
    /\ gitlab' = None
    /\ asyncGitlab' = None
    /\ impersonation' = None
    /\ call' = None
    /\ UNCHANGED <<builder, draft, built_endpoint>>

\* The probe's outcome arrives: the future is polled again and completes.
AsyncGitlab_new_impl_resume(outcome) ==
    /\ ctor.pc = "await_probe"
    /\ LET b == AsyncGitlab_new_impl(builder.protocol, builder.host, builder.token,
                                     builder.cert_validation, builder.identity,
                                     TRUE, outcome)
       IN  /\ ctor' = [ctor EXCEPT !.pc = "done", !.result = b.result,
                                   !.outcome = outcome]
           /\ asyncGitlab' = IF b.result.ok THEN b.result.value ELSE None
    /\ UNCHANGED <<builder, gitlab, impersonation, call, draft, built_endpoint>>

\* While the constructor future is suspended the executor runs another task.
PollOther ==
    /\ ctor.pc = "await_probe"
    /\ ~ctor.polled
    /\ ctor' = [ctor EXCEPT !.polled = TRUE]
    /\ UNCHANGED <<builder, gitlab, asyncGitlab, impersonation, call, draft, built_endpoint>>

(***************************************************************************)
(* Dispatch calls on the clients the caller holds.  The caller is one      *)
(* thread of control: it makes a call, takes its result, makes the next.   *)
(***************************************************************************)
\* RestClient::rest_endpoint (the same for Gitlab and AsyncGitlab).
rest_endpoint(self, endpoint) == UrlJoin(self.rest_url, endpoint)

\* The request an endpoint hands to rest / rest_async.
RestRequest(self, endpoint, valid) ==
    [method |-> "GET", url |-> rest_endpoint(self, endpoint), headers |-> <<>>,
     valid |-> valid]

Called(client, op, via, q, valid, outcome, done) ==
    [client |-> client, op |-> op, via |-> via, q |-> q, valid |-> valid,
     outcome |-> outcome, done |-> done]

Idling == call = None /\ NotAwaiting

CallGraphql(q, outcome) ==
    /\ Idling
    /\ gitlab # None
    /\ call' = Called("Gitlab", "graphql", "own", q, "ok", outcome,
                      Gitlab_graphql(gitlab, q, outcome))
    /\ UNCHANGED <<builder, ctor, gitlab, asyncGitlab, impersonation, draft, built_endpoint>>

CallGraphqlAsync(q, outcome) ==
    /\ Idling
    /\ asyncGitlab # None
    /\ call' = Called("AsyncGitlab", "graphql", "own", q, "ok", outcome,
                      AsyncGitlab_graphql(asyncGitlab, q, outcome))
    /\ UNCHANGED <<builder, ctor, gitlab, asyncGitlab, impersonation, draft, built_endpoint>>

CallRest(valid, outcome) ==
    /\ Idling
    /\ gitlab # None
    /\ call' = Called("Gitlab", "rest", "own", "", valid, outcome,
                      Gitlab_rest(gitlab, RestRequest(gitlab, <<"projects">>, valid),
                                  <<>>, outcome))
    /\ UNCHANGED <<builder, ctor, gitlab, asyncGitlab, impersonation, draft, built_endpoint>>

CallRestAsync(valid, outcome) ==
    /\ Idling
    /\ asyncGitlab # None
    /\ call' = Called("AsyncGitlab", "rest", "own", "", valid, outcome,
                      AsyncGitlab_rest_async(
                          asyncGitlab, RestRequest(asyncGitlab, <<"projects">>, valid),
                          <<>>, outcome))
    /\ UNCHANGED <<builder, ctor, gitlab, asyncGitlab, impersonation, draft, built_endpoint>>

\* An ImpersonationClient::new that would store the token in the wrapped client.
ImpersonationClient_new_overwrite(client, token) ==
    /\ Idling
    /\ IF client = "Gitlab" THEN gitlab # None ELSE asyncGitlab # None
    /\ impersonation' = [auth |-> AuthToken(token), client |-> client]
    /\ gitlab' = IF client = "Gitlab"
                    THEN [gitlab EXCEPT !.auth = AuthToken(token)] ELSE gitlab
    /\ asyncGitlab' = IF client = "Gitlab" THEN asyncGitlab
                      ELSE [asyncGitlab EXCEPT !.auth = AuthToken(token)]
    /\ UNCHANGED <<builder, ctor, call, draft, built_endpoint>>

\* ImpersonationClient::new on the Gitlab or the AsyncGitlab held.
ImpersonationClient_new(client, token) ==
    /\ Idling
    /\ IF client = "Gitlab" THEN gitlab # None ELSE asyncGitlab # None
    /\ impersonation' = [auth |-> AuthToken(token), client |-> client]
    /\ UNCHANGED <<builder, ctor, gitlab, asyncGitlab, call, draft, built_endpoint>>

ImpersonationClient_oauth2_token ==
    /\ Idling
    /\ impersonation # None
    /\ impersonation' =
            IF impersonation.auth.kind = "Token"
                THEN [impersonation EXCEPT !.auth = AuthOAuth2(impersonation.auth.secret)]
                ELSE impersonation
    /\ UNCHANGED <<builder, ctor, gitlab, asyncGitlab, call, draft, built_endpoint>>

\* An ImpersonationClient::rest that would send the wrapped client's own Auth.
ImpersonationClient_rest_own_auth(valid, outcome) ==
    /\ Idling
    /\ impersonation # None
    /\ impersonation.client = "Gitlab"
    /\ call' = Called("Gitlab", "rest", "impersonation", "", valid, outcome,
                      Gitlab_rest_auth(gitlab, RestRequest(gitlab, <<"projects">>, valid),
                                       <<>>, gitlab.auth, outcome))
    /\ UNCHANGED <<builder, ctor, gitlab, asyncGitlab, impersonation, draft, built_endpoint>>

\* api::Client::rest for ImpersonationClient<Gitlab>.
ImpersonationClient_rest(valid, outcome) ==
    /\ Idling
    /\ impersonation # None
    /\ impersonation.client = "Gitlab"
    /\ call' = Called("Gitlab", "rest", "impersonation", "", valid, outcome,
                      Gitlab_rest_auth(gitlab, RestRequest(gitlab, <<"projects">>, valid),
                                       <<>>, impersonation.auth, outcome))
    /\ UNCHANGED <<builder, ctor, gitlab, asyncGitlab, impersonation, draft, built_endpoint>>

\* api::AsyncClient::rest_async for ImpersonationClient<AsyncGitlab>.
ImpersonationClient_rest_async(valid, outcome) ==
    /\ Idling
    /\ impersonation # None
    /\ impersonation.client = "AsyncGitlab"
    /\ call' = Called("AsyncGitlab", "rest", "impersonation", "", valid, outcome,
                      AsyncGitlab_rest_async_auth(
                          asyncGitlab, RestRequest(asyncGitlab, <<"projects">>, valid),
                          <<>>, impersonation.auth, outcome))
    /\ UNCHANGED <<builder, ctor, gitlab, asyncGitlab, impersonation, draft, built_endpoint>>

\* RestClient::instance_endpoint for Gitlab.  impl RestClient for Gitlab
\* defines rest_endpoint only and a Gitlab holds no instance URL, so the call
\* runs the trait's provided method, which cannot reach an instance URL: it
\* fails, by an error value or by a panic (default tells which).
InstanceDefaults == {"unsupported", "panic"}
Gitlab_instance_endpoint(self, endpoint, default) ==
    IF default = "panic" THEN Panic
    ELSE Err([kind |-> "ApiError::UnsupportedUrlBase", base |-> "instance"])

\* RestClient::instance_endpoint for AsyncGitlab.
AsyncGitlab_instance_endpoint(self, endpoint) ==
    Ok(UrlJoin(self.instance_url, endpoint))

\* Relative paths handed to rest_endpoint / instance_endpoint.
RelPaths == {<<"projects">>, <<"projects", "1">>, <<"user">>}

\* rest_endpoint on the Gitlab or the AsyncGitlab held, directly ("own") or
\* through the ImpersonationClient wrapping it, which hands the call on to
\* its client.
CallRestEndpoint(client, via, p) ==
    /\ Idling
    /\ IF client = "Gitlab" THEN gitlab # None ELSE asyncGitlab # None
    /\ via = "impersonation" => impersonation # None /\ impersonation.client = client
    /\ call' = Called(client, "rest_endpoint", via, p, "ok", None,
                      Done(Ok(rest_endpoint(IF client = "Gitlab" THEN gitlab
                                            ELSE asyncGitlab, p)),
                           <<>>, FALSE))
    /\ UNCHANGED <<builder, ctor, gitlab, asyncGitlab, impersonation, draft,
                   built_endpoint>>

\* instance_endpoint, directly or through the ImpersonationClient.
CallInstanceEndpoint(client, via, p, default) ==
    /\ Idling
    /\ IF client = "Gitlab" THEN gitlab # None ELSE asyncGitlab # None
    /\ via = "impersonation" => impersonation # None /\ impersonation.client = client
    /\ call' = Called(client, "instance_endpoint", via, p, "ok", None,
                      Done(IF client = "Gitlab"
                              THEN Gitlab_instance_endpoint(gitlab, p, default)
                              ELSE AsyncGitlab_instance_endpoint(asyncGitlab, p),
                           <<>>, FALSE))
    /\ UNCHANGED <<builder, ctor, gitlab, asyncGitlab, impersonation, draft,
                   built_endpoint>>

\* #[derive(Clone)]: a second handle holding a copy of every field.
Clone(self) == [f \in DOMAIN self |-> self[f]]

CallClone(client) ==
    /\ Idling
    /\ IF client = "Gitlab" THEN gitlab # None ELSE asyncGitlab # None
    /\ call' = Called(client, "clone", "own", "", "ok", None,
                      Done(Ok(Clone(IF client = "Gitlab" THEN gitlab ELSE asyncGitlab)),
                           <<>>, FALSE))
    /\ UNCHANGED <<builder, ctor, gitlab, asyncGitlab, impersonation, draft,
                   built_endpoint>>

\* The caller takes the result of its call.
Return ==
    /\ call # None
    /\ call' = None
    /\ UNCHANGED <<builder, ctor, gitlab, asyncGitlab, impersonation, draft, built_endpoint>>

(***************************************************************************)
(* Client construction: the builder, the constructors, new_impl.           *)
(***************************************************************************)
Init ==
    /\ builder = None
    /\ ctor = Idle
    /\ gitlab = None
    /\ asyncGitlab = None
    /\ impersonation = None
    /\ call = None
    /\ draft = None
    /\ built_endpoint = None

\* Replies to the calls made on a freshly built client.
Answer ==
    Reply(200, <<>>,
          [tag |-> "Object", data |-> [tag |-> "Value", shape |-> "QueryA"],
           errors |-> Absent],
          TRUE)
LifecycleOutcomes == {SendFailure, Answer}

\* A client's life with its TLS configuration: the builder is configured with
\* a trust policy and a client identity, clients are built from it (or with a
\* root certificate, by new_self_signed), and calls are made on them.
Next ==
    \/ \E h \in Hosts : GitlabBuilder_new(h, <<"t", "1">>)
    \/ GitlabBuilder_cert_insecure
    \/ \E b \in CertBytes, pw \in Passwords :
            GitlabBuilder_client_identity_from_der(b, pw)
    \/ \E b \in CertBytes : GitlabBuilder_client_identity_from_pem(b)
    \/ \E ok \in BOOLEAN, o \in ProbeOutcomes : GitlabBuilder_build(ok, o)
    \/ \E ok \in BOOLEAN : GitlabBuilder_build_async(ok)
    \/ \E o \in ProbeOutcomes : AsyncGitlab_new_impl_resume(o)
    \/ PollOther
    \/ \E r \in RootCertificates, ok \in BOOLEAN, o \in {Accepted, SendFailure} :
            Gitlab_new_self_signed("gitlab.example", <<"t", "1">>, r, ok, o)
    \/ \E o \in LifecycleOutcomes : CallGraphql("QueryA", o)
    \/ \E o \in LifecycleOutcomes : CallGraphqlAsync("QueryA", o)
    \/ Return

Spec == Init /\ [][Next]_vars

\* Every way to a client and every Auth variant: the convenience constructors
\* of Gitlab, and the builder with its token.
NewNext ==
    \/ \E h \in Hosts, t \in Secrets, ok \in BOOLEAN, o \in ProbeOutcomes :
            Gitlab_new(h, t, ok, o)
    \/ \E h \in Hosts, t \in Secrets, ok \in BOOLEAN, o \in ProbeOutcomes :
            Gitlab_new_insecure(h, t, ok, o)
    \/ \E h \in Hosts, t \in Secrets, r \in {RootPem(b) : b \in CertBytes},
          ok \in BOOLEAN, o \in ProbeOutcomes :
            Gitlab_new_self_signed(h, t, r, ok, o)
    \/ \E h \in Hosts, t \in Secrets, ok \in BOOLEAN, o \in ProbeOutcomes :
            Gitlab_new_job_token(h, t, ok, o)
    \/ \E h \in Hosts, t \in Secrets, ok \in BOOLEAN, o \in ProbeOutcomes :
            Gitlab_new_job_token_insecure(h, t, ok, o)
    \/ \E h \in Hosts, t \in Secrets, ok \in BOOLEAN, o \in ProbeOutcomes :
            Gitlab_with_oauth2(h, t, ok, o)
    \/ \E h \in Hosts, t \in Secrets, ok \in BOOLEAN, o \in ProbeOutcomes :
            Gitlab_with_oauth2_insecure(h, t, ok, o)
    \/ \E h \in Hosts, t \in Secrets : GitlabBuilder_new(h, t)
    \/ \E h \in Hosts : GitlabBuilder_new_unauthenticated(h)
    \/ GitlabBuilder_insecure
    \/ GitlabBuilder_oauth2_token
    \/ \E ok \in BOOLEAN, o \in ProbeOutcomes : GitlabBuilder_build(ok, o)
    \/ \E ok \in BOOLEAN : GitlabBuilder_build_async(ok)
    \/ \E o \in ProbeOutcomes : AsyncGitlab_new_impl_resume(o)
    \/ PollOther
    \/ \E c \in {"Gitlab", "AsyncGitlab"}, t \in Secrets : ImpersonationClient_new(c, t)
    \/ ImpersonationClient_oauth2_token

SpecNew == Init /\ [][NewNext]_vars

\* Every method of GitlabBuilder, on builders for both hosts, with and without
\* a token, beside the one constructor that takes a root certificate.
BuilderNext ==
    \/ \E h \in Hosts : GitlabBuilder_new(h, <<"t", "1">>)
    \/ \E h \in Hosts : GitlabBuilder_new_unauthenticated(h)
    \/ GitlabBuilder_insecure
    \/ GitlabBuilder_cert_insecure
    \/ GitlabBuilder_oauth2_token
    \/ \E pw \in Passwords : GitlabBuilder_client_identity_from_der("good", pw)
    \/ GitlabBuilder_client_identity_from_pem("good")
    \/ \E o \in {Accepted, SendFailure} : GitlabBuilder_build(TRUE, o)
    \/ GitlabBuilder_build_async(TRUE)
    \/ \E o \in {Accepted, SendFailure} : AsyncGitlab_new_impl_resume(o)
    \/ PollOther
    \/ \E r \in {RootPem("good"), RootPemBundle(<<"good", "good">>)},
          o \in {Accepted, SendFailure} :
            Gitlab_new_self_signed("gitlab.example", <<"t", "1">>, r, TRUE, o)

SpecBuilder == Init /\ [][BuilderNext]_vars

(***************************************************************************)
(* Dispatch: a Gitlab and an AsyncGitlab built for one host with one Auth, *)
(* called with every transport outcome.                                    *)
(***************************************************************************)
\* Replies to a GraphQL query: every status and body.
GraphqlOutcomes ==
    {SendFailure}
        \cup {Reply(st, <<>>, b, r) : st \in Statuses, b \in Bodies, r \in BOOLEAN}

\* Replies to a REST call: every status and header list.
RestOutcomes ==
    {SendFailure}
        \cup {Reply(st, hs, b, r) :
                st \in Statuses, hs \in RspHeaders, b \in {NotJson}, r \in BOOLEAN}

RequestStates == {"ok", "builder_error", "not_convertible"}

\* The Auth values a constructed client can hold.
ClientAuths ==
    {AuthNone} \cup {AuthToken(s) : s \in Secrets} \cup {AuthJobToken(s) : s \in Secrets}
        \cup {AuthOAuth2(s) : s \in Secrets}

InitDispatch ==
    /\ builder = None
    /\ ctor = Idle
    /\ impersonation = None
    /\ call = None
    /\ draft = None
    /\ built_endpoint = None
    /\ \E a \in ClientAuths :
        LET sync == Gitlab_new_impl("https", "gitlab.example", a, CertDefault,
                                    ClientCertNone, TRUE, Accepted)
            async == AsyncGitlab_new_impl("https", "gitlab.example", a, CertDefault,
                                          ClientCertNone, TRUE, Accepted)
        IN  /\ sync.result.ok
            /\ async.result.ok
            /\ gitlab = sync.result.value
            /\ asyncGitlab = async.result.value

DispatchNext ==
    \/ \E q \in Queries, o \in GraphqlOutcomes : CallGraphql(q, o)
    \/ \E q \in Queries, o \in GraphqlOutcomes : CallGraphqlAsync(q, o)
    \/ \E v \in RequestStates, o \in RestOutcomes : CallRest(v, o)
    \/ \E v \in RequestStates, o \in RestOutcomes : CallRestAsync(v, o)
    \/ \E c \in {"Gitlab", "AsyncGitlab"}, t \in Secrets : ImpersonationClient_new(c, t)
    \/ ImpersonationClient_oauth2_token
    \/ \E v \in RequestStates, o \in RestOutcomes : ImpersonationClient_rest(v, o)
    \/ \E v \in RequestStates, o \in RestOutcomes : ImpersonationClient_rest_async(v, o)
    \/ Return

SpecDispatch == InitDispatch /\ [][DispatchNext]_vars

(***************************************************************************)
(* Clients in use: a Gitlab and an AsyncGitlab built from one protocol,    *)
(* host and Auth, and every operation a caller has on them.                *)
(***************************************************************************)
InitClients ==
    /\ builder = None
    /\ ctor = Idle
    /\ impersonation = None
    /\ call = None
    /\ draft = None
    /\ built_endpoint = None
    /\ \E pr \in Protocols, a \in ClientAuths :
        LET sync == Gitlab_new_impl(pr, "gitlab.example", a, CertDefault,
                                    ClientCertNone, TRUE, Accepted)
            async == AsyncGitlab_new_impl(pr, "gitlab.example", a, CertDefault,
                                          ClientCertNone, TRUE, Accepted)
        IN  /\ sync.result.ok
            /\ async.result.ok
            /\ gitlab = sync.result.value
            /\ asyncGitlab = async.result.value

\* Replies to the calls made on the clients in use.
ClientOutcomes ==
    {SendFailure, Answer, Reply(500, <<>>, NotJson, TRUE),
     Reply(200, <<>>, NotJson, FALSE)}

ClientsNext ==
    \/ \E o \in ClientOutcomes : CallGraphql("QueryA", o)
    \/ \E o \in ClientOutcomes : CallGraphqlAsync("QueryA", o)
    \/ \E v \in RequestStates, o \in ClientOutcomes : CallRest(v, o)
    \/ \E v \in RequestStates, o \in ClientOutcomes : CallRestAsync(v, o)
    \/ \E c \in {"Gitlab", "AsyncGitlab"}, via \in {"own", "impersonation"},
          p \in RelPaths : CallRestEndpoint(c, via, p)
    \/ \E c \in {"Gitlab", "AsyncGitlab"}, via \in {"own", "impersonation"},
          p \in RelPaths, d \in InstanceDefaults : CallInstanceEndpoint(c, via, p, d)
    \/ \E c \in {"Gitlab", "AsyncGitlab"} : CallClone(c)
    \/ \E c \in {"Gitlab", "AsyncGitlab"}, t \in Secrets : ImpersonationClient_new(c, t)
    \/ ImpersonationClient_oauth2_token
    \/ \E v \in RequestStates, o \in ClientOutcomes : ImpersonationClient_rest(v, o)
    \/ \E v \in RequestStates, o \in ClientOutcomes : ImpersonationClient_rest_async(v, o)
    \/ Return

SpecClients == InitClients /\ [][ClientsNext]_vars

(***************************************************************************)
(* Properties of dispatch (checked under SpecDispatch).                    *)
(***************************************************************************)
\* The latest call is a graphql call whose response was received in full
\* with a status that is not a server error.
GraphqlReceived ==
    /\ call # None
    /\ call.op = "graphql"
    /\ call.outcome.sent
    /\ call.outcome.readOk
    /\ call.outcome.status \notin 500..599

\* The body of the latest call has the shape of Response<ResponseData of q>.
BodyMatches ==
    /\ call.outcome.body.tag = "Object"
    /\ call.outcome.body.errors.tag # "Malformed"
    /\ call.outcome.body.data.tag = "Value" => call.outcome.body.data.shape = call.q

\* The latest call is a graphql call whose send returned a decoded envelope.
EnvelopeDecoded == GraphqlReceived /\ BodyMatches

\* The decoded envelope's two members, as Options.
EnvelopeErrors ==
    IF call.outcome.body.errors.tag = "List"
        THEN Some(call.outcome.body.errors.items) ELSE None
EnvelopeData ==
    IF call.outcome.body.data.tag = "Value" THEN Some(call.outcome.body.data) ELSE None

\* C1: GraphQL decode law, for Gitlab::graphql and AsyncGitlab::graphql on a
\* decoded envelope: errors present (any content) gives GitlabError::GraphQL
\* carrying those errors whatever data holds; errors absent and data present
\* gives Ok(data); errors absent and data absent gives GitlabError::NoResponse.
C1_GraphqlDecodeLaw ==
    EnvelopeDecoded =>
        /\ EnvelopeErrors.tag = "Some" =>
                call.done.result = Err([kind |-> "GraphQL",
                                        message |-> EnvelopeErrors.value])
        /\ EnvelopeErrors.tag = "None" /\ EnvelopeData.tag = "Some" =>
                call.done.result = Ok(EnvelopeData.value)
        /\ EnvelopeErrors.tag = "None" /\ EnvelopeData.tag = "None" =>
                call.done.result = Err([kind |-> "NoResponse"])

\* Both clients have answered an envelope holding errors and data with the
\* GraphQL error.
C1_Witness ==
    /\ EnvelopeDecoded
    /\ call.client = "AsyncGitlab"
    /\ EnvelopeErrors.tag = "Some"
    /\ EnvelopeErrors.value # <<>>
    /\ EnvelopeData.tag = "Some"
    /\ call.done.result.ok = FALSE
    /\ call.done.result.error.kind = "GraphQL"

\* C2 as stated: only a nonempty errors list short-circuits; with an errors
\* list of zero elements (absent, or present and empty) data present gives
\* Ok(data) and data absent gives GitlabError::NoResponse.
C2_Original ==
    EnvelopeDecoded /\ (EnvelopeErrors.tag = "None" \/ EnvelopeErrors.value = <<>>) =>
        /\ EnvelopeData.tag = "Some" => call.done.result = Ok(EnvelopeData.value)
        /\ EnvelopeData.tag = "None" => call.done.result = Err([kind |-> "NoResponse"])

\* C2 (amended): a present errors list short-circuits to GitlabError::GraphQL
\* even when it has zero elements (the error then carries an empty list),
\* whatever data holds; only when the errors member is absent does data
\* present give Ok(data) and data absent give GitlabError::NoResponse.
C2_EmptyErrorsShortCircuit ==
    EnvelopeDecoded =>
        /\ EnvelopeErrors = Some(<<>>) =>
                call.done.result = Err([kind |-> "GraphQL", message |-> <<>>])
        /\ EnvelopeErrors.tag = "Some" => ~call.done.result.ok
        /\ EnvelopeErrors.tag = "None" =>
                call.done.result = IF EnvelopeData.tag = "Some"
                                     THEN Ok(EnvelopeData.value)
                                     ELSE Err([kind |-> "NoResponse"])

\* An envelope with an empty errors list and data was answered with the
\* GraphQL error carrying no message.
C2_Witness ==
    /\ EnvelopeDecoded
    /\ EnvelopeErrors = Some(<<>>)
    /\ EnvelopeData.tag = "Some"
    /\ call.done.result = Err([kind |-> "GraphQL", message |-> <<>>])

\* C3: in send (reached through graphql), a response status in 500..599
\* gives GitlabError::Http carrying exactly that status, and the body is
\* never read or decoded, whatever it holds.
C3_ServerErrorBeforeDecode ==
    (/\ call # None
     /\ call.op = "graphql"
     /\ call.outcome.sent
     /\ call.outcome.status \in 500..599) =>
        /\ call.done.result = Err([kind |-> "Http", status |-> call.outcome.status])
        /\ call.done.rsp = call.done.result
        /\ ~call.done.bodyRead

\* A status 500 response whose body is valid JSON of the expected shape was
\* classified as an Http error without its body being read.
C3_Witness ==
    /\ call # None
    /\ call.op = "graphql"
    /\ call.outcome.sent
    /\ call.outcome.status = 500
    /\ call.outcome.readOk
    /\ BodyMatches
    /\ call.outcome.body.data.tag = "Value"
    /\ call.done.result = Err([kind |-> "Http", status |-> 500])
    /\ ~call.done.bodyRead

\* C4: in send, every response received in full whose status is not 5xx has
\* its body decoded as the expected type T: a matching body gives Ok(value),
\* any other body gives GitlabError::DataType naming T, and nothing else
\* (no panic, no other error kind).
C4_DecodeOrDataType ==
    GraphqlReceived =>
        /\ call.done.bodyRead
        /\ BodyMatches =>
                call.done.rsp = Ok([data |-> EnvelopeData, errors |-> EnvelopeErrors])
        /\ ~BodyMatches =>
                /\ ~call.done.rsp.ok
                /\ call.done.rsp.error.kind = "DataType"
                /\ call.done.rsp.error.typename = <<"graphql_client::Response", call.q>>
                /\ call.done.result = call.done.rsp

\* A 4xx response whose data has the shape of another query's ResponseData
\* was answered with DataType naming the expected type.
C4_Witness ==
    /\ GraphqlReceived
    /\ call.outcome.status = 499
    /\ call.outcome.body.tag = "Object"
    /\ call.outcome.body.data.tag = "Value"
    /\ call.outcome.body.data.shape # call.q
    /\ call.done.rsp.error.kind = "DataType"

\* What the caller can tell of a call: the value or the error kind.
Verdict(result) == IF result.ok THEN result ELSE [ok |-> FALSE, kind |-> result.error.kind]

\* The requests a call put on the wire, without the transport that carried them.
Outgoing(done) == [i \in 1..Len(done.wire) |-> done.wire[i].request]

\* The latest call, made on the other client with the same Auth, request
\* and transport outcome.
Twin ==
    IF call.op = "graphql"
        THEN IF call.client = "Gitlab"
                THEN AsyncGitlab_graphql(asyncGitlab, call.q, call.outcome)
                ELSE Gitlab_graphql(gitlab, call.q, call.outcome)
    ELSE LET auth == IF call.via = "own" THEN gitlab.auth ELSE impersonation.auth IN
         IF call.client = "Gitlab"
            THEN AsyncGitlab_rest_async_auth(
                    asyncGitlab, RestRequest(asyncGitlab, <<"projects">>, call.valid),
                    <<>>, auth, call.outcome)
            ELSE Gitlab_rest_auth(gitlab, RestRequest(gitlab, <<"projects">>, call.valid),
                                  <<>>, auth, call.outcome)

\* C5: sync/async symmetry: for the same Auth, request and transport outcome
\* the async call returns the same value or the same error kind as the sync
\* call, and the outgoing request (method, URL, headers, body) is the same.
C5_SyncAsyncSymmetry ==
    call # None =>
        /\ Verdict(Twin.result) = Verdict(call.done.result)
        /\ Outgoing(Twin) = Outgoing(call.done)

(***************************************************************************)
(* Properties of construction with TLS material (checked under Spec).      *)
(***************************************************************************)
\* The latest constructor call has returned.
Returned == ctor.kind # "none" /\ ctor.pc = "done"

\* The client the latest constructor call handed back, if it handed one back.
BuiltClient == IF ctor.kind = "sync" THEN gitlab ELSE asyncGitlab

\* The certificates the configured trust policy names, as raw bytes in order.
ConfiguredRoots ==
    IF ctor.cert_validation.policy # "SelfSigned" THEN <<>>
    ELSE IF ctor.cert_validation.root.format = "PemBundle"
        THEN ctor.cert_validation.root.bytes
    ELSE <<ctor.cert_validation.root.bytes>>

\* The transport carries the configured trust policy.
CarriesPolicy(transport) ==
    /\ transport.accept_invalid_certs = (ctor.cert_validation.policy = "Insecure")
    /\ Len(transport.roots) = Len(ConfiguredRoots)
    /\ \A i \in 1..Len(ConfiguredRoots) : transport.roots[i].bytes = ConfiguredRoots[i]

\* The transport carries the configured client identity.
CarriesIdentity(transport) ==
    IF ctor.identity.format = "None" THEN transport.identity = None
    ELSE /\ transport.identity # None
         /\ transport.identity.value.format = ctor.identity.format
         /\ transport.identity.value.bytes = ctor.identity.bytes

\* C6: for every combination of CertPolicy and ClientCert, construction
\* either hands back a client whose transport carries both the configured
\* trust policy and the configured client identity, or fails with an error;
\* a configured identity or policy is never dropped without an error.
C6_PolicyAndIdentityCarried ==
    Returned /\ ctor.result.ok =>
        /\ CarriesPolicy(BuiltClient.client)
        /\ CarriesIdentity(BuiltClient.client)

\* How many times a constructor call parsed certificate or identity bytes.
ParseCount(events) ==
    Len(SelectSeq(events, LAMBDA e : e \in {"parse_identity", "parse_root"}))
ProbeCount(events) == Len(SelectSeq(events, LAMBDA e : e = "probe"))

\* The latest constructor call was given certificate or identity bytes.
HasMaterial ==
    ctor.identity.format # "None" \/ ctor.cert_validation.policy = "SelfSigned"

\* Some of the bytes handed to the latest constructor call do not parse.
MaterialMalformed ==
    \/ ctor.identity.format # "None" /\ ctor.identity.bytes = "junk"
    \/ \E i \in 1..Len(ConfiguredRoots) : ConfiguredRoots[i] = "junk"

\* The latest constructor call failed on its base URLs, before its match on
\* the trust policy.
UrlFailed == Returned /\ ~ctor.result.ok /\ ctor.result.error.kind = "UrlParse"

\* A step of the builder's setters, and a step that makes a dispatch call.
SetterStep == builder # None /\ builder' # None /\ builder' # builder
DispatchStep == call' # None /\ call' # call

\* C7: certificate and identity bytes are resolved only at build time: the
\* setters never parse and never fail, no dispatch call parses certificate
\* material, and every build call that gets past its base URLs with bytes
\* configured parses them exactly once and returns a parse failure as its
\* error.
C7_ParsedOnceAtBuild ==
    [][/\ SetterStep \/ DispatchStep => ctor' = ctor
       /\ (Returned /\ HasMaterial /\ ~UrlFailed)' =>
            /\ ParseCount(ctor.events)' = 1
            /\ MaterialMalformed' => ~ctor.result.ok']_vars

\* C8: construction is all-or-nothing: when parsing the client identity or
\* any root certificate fails, the call returns an error and no client; a
\* client is handed back only with every certificate of its bundle added,
\* never with a subset.
C8_AllOrNothing ==
    Returned =>
        /\ ParseCount(ctor.events) > 0 /\ MaterialMalformed =>
                ~ctor.result.ok /\ BuiltClient = None
        /\ ctor.result.ok =>
                /\ BuiltClient = ctor.result.value
                /\ Len(BuiltClient.client.roots) = Len(ConfiguredRoots)
                /\ \A i \in 1..Len(ConfiguredRoots) :
                        BuiltClient.client.roots[i].bytes = ConfiguredRoots[i]

\* new_self_signed with a bundle of one certificate that parses and one that
\* does not returned an error and no client.
C8_Witness ==
    /\ Returned
    /\ ctor.cert_validation.policy = "SelfSigned"
    /\ ctor.cert_validation.root.format = "PemBundle"
    /\ \E i, j \in 1..Len(ConfiguredRoots) :
            ConfiguredRoots[i] = "good" /\ ConfiguredRoots[j] = "junk"
    /\ ~ctor.result.ok
    /\ gitlab = None

(***************************************************************************)
(* Properties of the connection probe.                                     *)
(***************************************************************************)
\* The probe of the latest constructor call: one request, on the transport
\* and with the Auth header of the client given.
ProbedWith(client) ==
    /\ ProbeCount(ctor.events) = 1
    /\ Len(ctor.wire) = 1
    /\ ctor.wire[1].transport = client.client
    /\ ctor.wire[1].request.url = UrlJoin(client.rest_url, <<"user">>)
    /\ set_header(client.auth, <<>>).ok
    /\ ctor.wire[1].request.headers = set_header(client.auth, <<>>).value

\* The server accepted the probe.
ProbeAccepted ==
    /\ ctor.outcome # None
    /\ ctor.outcome.sent
    /\ ctor.outcome.readOk
    /\ is_success(ctor.outcome.status)

\* C9 (checked under SpecNew): every constructor call, whatever the Auth
\* variant, hands back a client only after exactly one probe, made with that
\* client's own Auth and transport, was accepted; when the probe fails the
\* call returns an error and no client.
C9_FailFastProbe ==
    /\ gitlab # None =>
            ctor.kind = "sync" /\ Returned /\ ctor.result = Ok(gitlab)
                /\ ProbedWith(gitlab) /\ ProbeAccepted
    /\ asyncGitlab # None =>
            ctor.kind = "async" /\ Returned /\ ctor.result = Ok(asyncGitlab)
                /\ ProbedWith(asyncGitlab) /\ ProbeAccepted
    /\ Returned /\ ~ProbeAccepted => ~ctor.result.ok /\ BuiltClient = None

\* A client authenticating with an OAuth2 token was handed back after its
\* probe went out with the bearer header.
C9_Witness ==
    /\ gitlab # None
    /\ gitlab.auth.kind = "OAuth2"
    /\ ctor.wire[1].request.headers # <<>>
    /\ ProbeAccepted

\* C10 as stated (checked under Spec): async construction makes exactly one
\* probe and the probe is synchronous: the constructor is never suspended
\* with its probe in flight and no other task runs before it returns.
C10_Original ==
    ctor.kind = "async" =>
        /\ ctor.pc # "await_probe"
        /\ ~ctor.polled
        /\ asyncGitlab # None => ProbeCount(ctor.events) = 1 /\ Len(ctor.wire) = 1

\* C10 (amended): async construction makes exactly one probe and awaits it:
\* while the probe is in flight the constructor is suspended, other tasks may
\* run and no client exists yet; the AsyncGitlab is handed back only after
\* the probe was accepted, so no asynchronous call on it comes before.
C10_OneAwaitedProbe ==
    ctor.kind = "async" =>
        /\ ProbeCount(ctor.events) <= 1
        /\ Len(ctor.wire) = ProbeCount(ctor.events)
        /\ ctor.pc = "await_probe" =>
                ProbeCount(ctor.events) = 1 /\ asyncGitlab = None /\ call = None
        /\ ctor.polled => ProbeCount(ctor.events) = 1
        /\ asyncGitlab # None =>
                Returned /\ ProbeCount(ctor.events) = 1 /\ ProbeAccepted
        /\ call # None => asyncGitlab # None /\ call.client = "AsyncGitlab"

\* Another task ran while the probe of build_async was in flight; the client
\* was handed back afterwards and an asynchronous call was made on it.
C10_Witness ==
    /\ ctor.kind = "async"
    /\ ctor.polled
    /\ asyncGitlab # None
    /\ call # None
    /\ call.client = "AsyncGitlab"

(***************************************************************************)
(* Properties of the clients in use (SpecClients).                         *)
(***************************************************************************)
Client(c) == IF c = "Gitlab" THEN gitlab ELSE asyncGitlab

\* The three base URLs of a client made from protocol pr and host h.
BaseUrls(pr, h) ==
    [instance_url |-> [scheme |-> pr, host |-> h, path |-> <<"">>],
     rest_url |-> [scheme |-> pr, host |-> h, path |-> <<"api", "v4", "">>],
     graphql_url |-> [scheme |-> pr, host |-> h, path |-> <<"api", "graphql">>]]

OwnsBaseUrls(self, base) ==
    \A f \in DOMAIN base : f \in DOMAIN self /\ self[f] = base[f]

Resolving == call # None /\ call.op \in {"rest_endpoint", "instance_endpoint"}

\* C11: the Gitlab and the AsyncGitlab each own an instance, a REST and a
\* GraphQL base URL made from one protocol and host; rest_endpoint(p) is p
\* under {protocol}://{host}/api/v4/, instance_endpoint(p) is p under
\* {protocol}://{host}/, GraphQL requests go to /api/graphql, and both
\* clients resolve every path to the same URL.
C11_ThreeBaseUrls ==
    \E pr \in Protocols :
        LET base == BaseUrls(pr, "gitlab.example") IN
        /\ OwnsBaseUrls(gitlab, base)
        /\ OwnsBaseUrls(asyncGitlab, base)
        /\ Resolving =>
            call.done.result =
                Ok([scheme |-> pr, host |-> "gitlab.example",
                    path |-> IF call.op = "rest_endpoint"
                                THEN <<"api", "v4">> \o call.q
                                ELSE call.q])
        /\ (call # None /\ call.op = "graphql" /\ call.done.wire # <<>>) =>
            call.done.wire[1].request.url = base.graphql_url

\* C12: once constructed, a client's base URLs and Auth never change: no
\* graphql, rest / rest_async, rest_endpoint, instance_endpoint or clone
\* call, and no wrapping in an ImpersonationClient or call through it,
\* touches the Gitlab or the AsyncGitlab; a clone holds the same fields.
C12_ClientsImmutable ==
    [][/\ gitlab' = gitlab
       /\ asyncGitlab' = asyncGitlab
       /\ (call' # None /\ call'.op = "clone") =>
            call'.done.result = Ok(Client(call'.client))]_vars

C12_Witness ==
    /\ call # None
    /\ call.via = "impersonation"
    /\ call.op = "rest"
    /\ call.done.wire # <<>>
    /\ impersonation.auth # Client(call.client).auth
    /\ Client(call.client).auth.kind = "Token"

\* What the wrapped client returns for the endpoint resolution recorded in c.
OwnResolutions(c) ==
    IF c.op = "rest_endpoint" THEN {Ok(rest_endpoint(Client(c.client), c.q))}
    ELSE IF c.client = "Gitlab"
        THEN {Gitlab_instance_endpoint(gitlab, c.q, d) : d \in InstanceDefaults}
    ELSE {AsyncGitlab_instance_endpoint(asyncGitlab, c.q)}

Impersonated == call # None /\ call.via = "impersonation"

\* A call through the wrapper did what the wrapped client does with the
\* wrapper's Auth.
DelegatedCall ==
    /\ (Impersonated /\ Resolving) => call.done.result \in OwnResolutions(call)
    /\ (Impersonated /\ call.op = "rest") =>
            \A i \in 1..Len(call.done.wire) :
                LET sent == call.done.wire[i] IN
                /\ sent.transport = Client(call.client).client
                /\ sent.request.url = rest_endpoint(Client(call.client), <<"projects">>)
                /\ Ok(sent.request.headers) = set_header(impersonation.auth, <<>>)

\* C13: a call through an ImpersonationClient resolves a relative path to
\* the URL the wrapped client resolves it to, runs on the wrapped client's
\* transport, and carries the header of the wrapper's own Auth and nothing
\* of the wrapped client's; making the wrapper puts nothing on the wire.
C13_ImpersonationDelegates ==
    [][/\ DelegatedCall'
       /\ impersonation' # impersonation => call' = call /\ call = None]_vars

C13_Witness ==
    /\ Impersonated
    /\ call.op = "rest"
    /\ Len(call.done.wire) = 1
    /\ Client(call.client).auth.kind = "JobToken"
    /\ impersonation.auth.kind = "Token"
    /\ call.done.wire[1].request.headers =
            <<[name |-> "PRIVATE-TOKEN", value |-> impersonation.auth.secret]>>

(***************************************************************************)
(* No retry (SpecDispatch).                                                *)
(***************************************************************************)
\* The Auth a call computes its header from.
CallAuth ==
    IF call.via = "impersonation" THEN impersonation.auth
    ELSE IF call.client = "Gitlab" THEN gitlab.auth ELSE asyncGitlab.auth

\* Header computation and request construction both succeed.
Prepared == set_header(CallAuth, <<>>).ok /\ call.valid = "ok"

\* C14: send, rest_auth and rest_async_auth never retry: a call puts one
\* request on the wire when its header and its request could be made and
\* none when they could not, and a transport failure or a 5xx status ends
\* the call with an error without a second request or a body read.
C14_NoRetry ==
    (call # None /\ call.op \in {"graphql", "rest"}) =>
        /\ Len(call.done.wire) = IF Prepared THEN 1 ELSE 0
        /\ ~Prepared => ~call.done.result.ok
        /\ (Prepared /\ ~call.outcome.sent) =>
                ~call.done.result.ok /\ ~call.done.bodyRead
        /\ (Prepared /\ call.op = "graphql" /\ call.outcome.sent
                /\ is_server_error(call.outcome.status)) =>
                ~call.done.result.ok /\ ~call.done.bodyRead

C14_Witness ==
    /\ call # None
    /\ call.op = "graphql"
    /\ call.client = "Gitlab"
    /\ Prepared
    /\ ~call.outcome.sent
    /\ Len(call.done.wire) = 1
    /\ ~call.done.result.ok

(***************************************************************************)
(* Endpoint drafts (src/src/api/projects): the builders of CancelJob,      *)
(* CompareCommits and CreateProject and what the built endpoints hand to   *)
(* a client.                                                               *)
(***************************************************************************)
\* Text is a sequence of tokens: a reserved character stands alone.
Cat(s) ==
    LET cat[i \in 0..Len(s)] == IF i = 0 THEN "" ELSE cat[i - 1] \o s[i]
    IN  cat[Len(s)]

Digits == <<"0", "1", "2", "3", "4", "5", "6", "7", "8", "9">>

\* Display of an unsigned integer.
RECURSIVE ToDecimal(_)
ToDecimal(n) ==
    IF n < 10 THEN Digits[n + 1]
    ELSE ToDecimal(n \div 10) \o Digits[(n % 10) + 1]

\* ParamValue::as_value of a bool.
BoolValue(b) == IF b THEN "true" ELSE "false"

\* NameOrId: a numeric id or a textual path.
NameOrId_Id(id) == [kind |-> "Id", id |-> id]
NameOrId_Name(name) == [kind |-> "Name", name |-> name]

\* Percent-encoding of one token of a path component.
PathEscape(ch) ==
    IF ch = "/" THEN "%2F"
    ELSE IF ch = "%" THEN "%25"
    ELSE IF ch = " " THEN "%20"
    ELSE ch

\* A Display that would write the textual path as it is.
NameOrId_fmt_raw(self) ==
    IF self.kind = "Id" THEN ToDecimal(self.id) ELSE Cat(self.name)

\* Display of NameOrId, as used by format!("projects/{}/..", self.project).
NameOrId_fmt(self) ==
    IF self.kind = "Id" THEN ToDecimal(self.id)
    ELSE Cat([i \in 1..Len(self.name) |-> PathEscape(self.name[i])])

\* QueryParams / FormParams: an ordered sequence of (key, value) pairs.
Pair(key, value) == [key |-> key, value |-> value]
push(params, key, value) == Append(params, Pair(key, value))
push_opt(params, key, value) ==
    IF value = None THEN params ELSE push(params, key, value.value)
extend(params, pairs) == params \o pairs

\* Input domains of the drafts.
Projects ==
    {NameOrId_Id(1), NameOrId_Id(2048),
     NameOrId_Name(<<"simple", "/", "project">>)}
Jobs == {1, 305}
Refs == {"main", "v1.0"}
ProjectIds == {234876}

\* The error of a derive_builder build() that finds a required field unset.
\* Its Display quotes the field name in grave accents, written ' here (a TLA+
\* string cannot hold a grave accent).
UninitializedField(field) ==
    [kind |-> "UninitializedField", field |-> field,
     message |-> "'" \o field \o "' must be initialized"]

(***************************************************************************)
(* CancelJob (jobs/cancel.rs).                                             *)
(***************************************************************************)
CancelJobBuilder_default == [type |-> "CancelJob", project |-> None, job |-> None]

\* A build() that would look at job before project.
CancelJobBuilder_build_job_first(self) ==
    IF self.job = None THEN Err(UninitializedField("job"))
    ELSE IF self.project = None THEN Err(UninitializedField("project"))
    ELSE Ok([type |-> "CancelJob", project |-> self.project.value,
             job |-> self.job.value])

\* CancelJobBuilder::build: fields are taken in declaration order.
CancelJobBuilder_build(self) ==
    IF self.project = None THEN Err(UninitializedField("project"))
    ELSE IF self.job = None THEN Err(UninitializedField("job"))
    ELSE Ok([type |-> "CancelJob", project |-> self.project.value,
             job |-> self.job.value])

CancelJob_method(self) == "POST"
CancelJob_endpoint(self) ==
    "projects/" \o NameOrId_fmt(self.project) \o "/jobs/" \o ToDecimal(self.job)
        \o "/cancel"

(***************************************************************************)
(* CompareCommits (repository/commits/compare.rs).                         *)
(***************************************************************************)
CompareCommitsBuilder_default ==
    [type |-> "CompareCommits", project |-> None, from |-> None, to |-> None,
     from_project_id |-> None, straight |-> None, unidiff |-> None]

\* A build() that would fall back to a default for a missing `to`.
CompareCommitsBuilder_build_lenient(self) ==
    IF self.project = None THEN Err(UninitializedField("project"))
    ELSE IF self.from = None THEN Err(UninitializedField("from"))
    ELSE Ok([type |-> "CompareCommits", project |-> self.project.value,
             from |-> self.from.value,
             to |-> IF self.to = None THEN "" ELSE self.to.value,
             from_project_id |-> self.from_project_id,
             straight |-> self.straight, unidiff |-> self.unidiff])

\* CompareCommitsBuilder::build: project, from and to are required, the
\* other fields default to None.
CompareCommitsBuilder_build(self) ==
    IF self.project = None THEN Err(UninitializedField("project"))
    ELSE IF self.from = None THEN Err(UninitializedField("from"))
    ELSE IF self.to = None THEN Err(UninitializedField("to"))
    ELSE Ok([type |-> "CompareCommits", project |-> self.project.value,
             from |-> self.from.value, to |-> self.to.value,
             from_project_id |-> self.from_project_id,
             straight |-> self.straight, unidiff |-> self.unidiff])

\* An optional id or flag as push_opt takes it: rendered when present.
OptDecimal(value) == IF value = None THEN None ELSE Some(ToDecimal(value.value))
OptBool(value) == IF value = None THEN None ELSE Some(BoolValue(value.value))

CompareCommits_method(self) == "GET"
CompareCommits_endpoint(self) ==
    "projects/" \o NameOrId_fmt(self.project) \o "/repository/compare"

\* A parameters() that would leave out a flag that is set.
CompareCommits_parameters_no_unidiff(self) ==
    LET p1 == push(<<>>, "from", self.from)
        p2 == push(p1, "to", self.to)
        p3 == push_opt(p2, "from_project_id", OptDecimal(self.from_project_id))
        p4 == push_opt(p3, "straight", OptBool(self.straight))
    IN  p4

CompareCommits_parameters(self) ==
    LET p1 == push(<<>>, "from", self.from)
        p2 == push(p1, "to", self.to)
        p3 == push_opt(p2, "from_project_id", OptDecimal(self.from_project_id))
        p4 == push_opt(p3, "straight", OptBool(self.straight))
        p5 == push_opt(p4, "unidiff", OptBool(self.unidiff))
    IN  p5

(***************************************************************************)
(* CreateProject (projects/create.rs).                                     *)
(***************************************************************************)
FeatureAccessLevel_variants == {"Disabled", "Private", "Enabled"}
FeatureAccessLevel_as_str(self) ==
    CASE self = "Disabled" -> "disabled"
      [] self = "Private" -> "private"
      [] self = "Enabled" -> "enabled"

FeatureAccessLevelPublic_variants == {"Disabled", "Private", "Enabled", "Public"}
FeatureAccessLevelPublic_as_str(self) ==
    CASE self = "Disabled" -> "disabled"
      [] self = "Private" -> "private"
      [] self = "Enabled" -> "enabled"
      [] self = "Public" -> "public"

ContainerExpirationCadence_variants == {"OneDay", "OneWeek", "TwoWeeks", "OneMonth", "ThreeMonths"}
ContainerExpirationCadence_as_str(self) ==
    CASE self = "OneDay" -> "1d"
      [] self = "OneWeek" -> "7d"
      [] self = "TwoWeeks" -> "14d"
      [] self = "OneMonth" -> "1month"
      [] self = "ThreeMonths" -> "3month"

ContainerExpirationKeepN_variants == {"One", "Five", "Ten", "TwentyFive", "Fifty", "OneHundred"}
ContainerExpirationKeepN_as_str(self) ==
    CASE self = "One" -> "1"
      [] self = "Five" -> "5"
      [] self = "Ten" -> "10"
      [] self = "TwentyFive" -> "25"
      [] self = "Fifty" -> "50"
      [] self = "OneHundred" -> "100"

ContainerExpirationOlderThan_variants == {"OneWeek", "TwoWeeks", "OneMonth", "ThreeMonths"}
ContainerExpirationOlderThan_as_str(self) ==
    CASE self = "OneWeek" -> "7d"
      [] self = "TwoWeeks" -> "14d"
      [] self = "OneMonth" -> "30d"
      [] self = "ThreeMonths" -> "90d"

AutoDevOpsDeployStrategy_variants == {"Continuous", "Manual", "TimedIncremental"}
AutoDevOpsDeployStrategy_as_str(self) ==
    CASE self = "Continuous" -> "continuous"
      [] self = "Manual" -> "manual"
      [] self = "TimedIncremental" -> "timed_incremental"

MergeMethod_variants == {"Merge", "RebaseMerge", "FastForward"}
\* An as_str that would write FastForward as "merge".
MergeMethod_as_str_ff_merge(self) ==
    IF self = "RebaseMerge" THEN "rebase_merge" ELSE "merge"
MergeMethod_as_str(self) ==
    CASE self = "Merge" -> "merge"
      [] self = "RebaseMerge" -> "rebase_merge"
      [] self = "FastForward" -> "ff"

BuildGitStrategy_variants == {"Clone", "Fetch", "None"}
BuildGitStrategy_as_str(self) ==
    CASE self = "Clone" -> "clone"
      [] self = "Fetch" -> "fetch"
      [] self = "None" -> "none"

\* VisibilityLevel and EnableState of api::common.
VisibilityLevel_variants == {"Public", "Internal", "Private"}
VisibilityLevel_as_value(self) ==
    CASE self = "Public" -> "public"
      [] self = "Internal" -> "internal"
      [] self = "Private" -> "private"
EnableState_variants == {"Enabled", "Disabled"}
EnableState_as_value(self) ==
    CASE self = "Enabled" -> "enabled"
      [] self = "Disabled" -> "disabled"

\* ParamValue::as_value by type; for the enums it is self.as_str().into().
as_value(type, v) ==
    CASE type = "u64" -> ToDecimal(v)
      [] type = "str" -> v
      [] type = "bool" -> BoolValue(v)
      [] type = "FeatureAccessLevel" -> FeatureAccessLevel_as_str(v)
      [] type = "FeatureAccessLevelPublic" -> FeatureAccessLevelPublic_as_str(v)
      [] type = "ContainerExpirationCadence" -> ContainerExpirationCadence_as_str(v)
      [] type = "ContainerExpirationKeepN" -> ContainerExpirationKeepN_as_str(v)
      [] type = "ContainerExpirationOlderThan" -> ContainerExpirationOlderThan_as_str(v)
      [] type = "VisibilityLevel" -> VisibilityLevel_as_value(v)
      [] type = "MergeMethod" -> MergeMethod_as_str(v)
      [] type = "BuildGitStrategy" -> BuildGitStrategy_as_str(v)
      [] type = "EnableState" -> EnableState_as_value(v)
      [] type = "AutoDevOpsDeployStrategy" -> AutoDevOpsDeployStrategy_as_str(v)

\* ContainerExpirationPolicy: every field is optional.
ContainerExpirationPolicy(cadence, enabled, keep_n, older_than, name_regex) ==
    [cadence |-> cadence, enabled |-> enabled, keep_n |-> keep_n,
     older_than |-> older_than, name_regex |-> name_regex]

\* A field of the policy as push_opt takes it.
OptValue(type, value) ==
    IF value = None THEN None ELSE Some(as_value(type, value.value))

ContainerExpirationPolicy_add_query(self, params) ==
    LET p1 == push_opt(params, "container_expiration_policy_attributes[cadence]",
                       OptValue("ContainerExpirationCadence", self.cadence))
        p2 == push_opt(p1, "container_expiration_policy_attributes[enabled]",
                       OptValue("bool", self.enabled))
        p3 == push_opt(p2, "container_expiration_policy_attributes[keep_n]",
                       OptValue("ContainerExpirationKeepN", self.keep_n))
        p4 == push_opt(p3, "container_expiration_policy_attributes[older_than]",
                       OptValue("ContainerExpirationOlderThan", self.older_than))
        p5 == push_opt(p4, "container_expiration_policy_attributes[name_regex]",
                       OptValue("str", self.name_regex))
    IN  p5

\* ProjectName: what the draft knows of name and path.
ProjectName_Name(name) == [kind |-> "Name", name |-> name]
ProjectName_Path(path) == [kind |-> "Path", path |-> path]
ProjectName_NameAndPath(name, path) == [kind |-> "NameAndPath", name |-> name, path |-> path]

\* A with_name that would keep the name alone.
ProjectName_with_name_alone(self, name) == ProjectName_Name(name)

ProjectName_with_name(self, name) ==
    IF self.kind = "Name" THEN ProjectName_Name(name)
    ELSE ProjectName_NameAndPath(name, self.path)

ProjectName_with_path(self, path) ==
    IF self.kind = "Path" THEN ProjectName_Path(path)
    ELSE ProjectName_NameAndPath(self.name, path)

\* The optional fields in the order body() pushes them: before the tags,
\* after the tags, and the deprecated ones after the expiration policy.
FieldsBeforeTags ==
    <<[name |-> "namespace_id", type |-> "u64"],
      [name |-> "default_branch", type |-> "str"],
      [name |-> "description", type |-> "str"],
      [name |-> "issues_access_level", type |-> "FeatureAccessLevel"],
      [name |-> "repository_access_level", type |-> "FeatureAccessLevel"],
      [name |-> "merge_requests_access_level", type |-> "FeatureAccessLevel"],
      [name |-> "forking_access_level", type |-> "FeatureAccessLevel"],
      [name |-> "builds_access_level", type |-> "FeatureAccessLevel"],
      [name |-> "wiki_access_level", type |-> "FeatureAccessLevel"],
      [name |-> "snippets_access_level", type |-> "FeatureAccessLevel"],
      [name |-> "pages_access_level", type |-> "FeatureAccessLevelPublic"],
      [name |-> "emails_disabled", type |-> "bool"],
      [name |-> "resolve_outdated_diff_discussions", type |-> "bool"],
      [name |-> "container_registry_enabled", type |-> "bool"],
      [name |-> "shared_runners_enabled", type |-> "bool"],
      [name |-> "visibility", type |-> "VisibilityLevel"],
      [name |-> "import_url", type |-> "str"],
      [name |-> "public_builds", type |-> "bool"],
      [name |-> "only_allow_merge_if_pipeline_succeeds", type |-> "bool"],
      [name |-> "only_allow_merge_if_all_discussions_are_resolved", type |-> "bool"],
      [name |-> "merge_method", type |-> "MergeMethod"],
      [name |-> "autoclose_referenced_issues", type |-> "bool"],
      [name |-> "remove_source_branch_after_merge", type |-> "bool"],
      [name |-> "lfs_enabled", type |-> "bool"],
      [name |-> "request_access_enabled", type |-> "bool"]>>

FieldsAfterTags ==
    <<[name |-> "printing_merge_request_link_enabled", type |-> "bool"],
      [name |-> "build_git_strategy", type |-> "BuildGitStrategy"],
      [name |-> "build_timeout", type |-> "u64"],
      [name |-> "auto_cancel_pending_pipelines", type |-> "EnableState"],
      [name |-> "build_coverage_regex", type |-> "str"],
      [name |-> "ci_config_path", type |-> "str"],
      [name |-> "auto_devops_enabled", type |-> "bool"],
      [name |-> "auto_devops_deploy_strategy", type |-> "AutoDevOpsDeployStrategy"],
      [name |-> "repository_storage", type |-> "str"],
      [name |-> "approvals_before_merge", type |-> "u64"],
      [name |-> "external_authorization_classification_label", type |-> "str"],
      [name |-> "mirror", type |-> "bool"],
      [name |-> "mirror_trigger_builds", type |-> "bool"],
      [name |-> "initialize_with_readme", type |-> "bool"],
      [name |-> "template_name", type |-> "str"],
      [name |-> "template_project_id", type |-> "u64"],
      [name |-> "use_custom_template", type |-> "bool"],
      [name |-> "group_with_project_templates_id", type |-> "u64"],
      [name |-> "packages_enabled", type |-> "bool"]>>

DeprecatedFields ==
    <<[name |-> "issues_enabled", type |-> "bool"],
      [name |-> "merge_requests_enabled", type |-> "bool"],
      [name |-> "jobs_enabled", type |-> "bool"],
      [name |-> "wiki_enabled", type |-> "bool"],
      [name |-> "snippets_enabled", type |-> "bool"]>>

PushedFields == FieldsBeforeTags \o FieldsAfterTags \o DeprecatedFields
PolicyField == "container_expiration_policy_attributes"
OptionalFields == {PushedFields[i].name : i \in 1..Len(PushedFields)} \cup {PolicyField}
FieldTypes ==
    [f \in OptionalFields |->
        IF f = PolicyField THEN "ContainerExpirationPolicy"
        ELSE PushedFields[CHOOSE i \in 1..Len(PushedFields) : PushedFields[i].name = f].type]
FieldType(f) == FieldTypes[f]

\* Tags, in the order of BTreeSet<Cow<str>>.
TagOrder == <<"alpha", "beta">>
Tags == {TagOrder[i] : i \in 1..Len(TagOrder)}
\* An iteration over the tags from the greatest to the least.
SortedTags_descending(tag_list) ==
    LET up == SelectSeq(TagOrder, LAMBDA t : t \in tag_list) IN
    [i \in 1..Len(up) |-> up[Len(up) + 1 - i]]

SortedTags(tag_list) == SelectSeq(TagOrder, LAMBDA t : t \in tag_list)

ProjectNames == {"name"}
ProjectPaths == {"path"}

\* Values a setter can be given, by type.
Policies ==
    {ContainerExpirationPolicy(None, None, None, None, None),
     ContainerExpirationPolicy(Some("OneDay"), Some(TRUE), Some("One"),
                               Some("OneWeek"), Some(":latest"))}
    \cup {ContainerExpirationPolicy(Some(c), None, None, None, None) :
            c \in ContainerExpirationCadence_variants}
    \cup {ContainerExpirationPolicy(None, None, Some(k), None, None) :
            k \in ContainerExpirationKeepN_variants}
    \cup {ContainerExpirationPolicy(None, None, None, Some(o), None) :
            o \in ContainerExpirationOlderThan_variants}

ValuesOf(type) ==
    CASE type = "u64" -> {12}
      [] type = "str" -> {"text"}
      [] type = "bool" -> {TRUE, FALSE}
      [] type = "FeatureAccessLevel" -> FeatureAccessLevel_variants
      [] type = "FeatureAccessLevelPublic" -> FeatureAccessLevelPublic_variants
      [] type = "VisibilityLevel" -> VisibilityLevel_variants
      [] type = "MergeMethod" -> MergeMethod_variants
      [] type = "BuildGitStrategy" -> BuildGitStrategy_variants
      [] type = "EnableState" -> EnableState_variants
      [] type = "AutoDevOpsDeployStrategy" -> AutoDevOpsDeployStrategy_variants
      [] type = "ContainerExpirationPolicy" -> Policies

CreateProjectBuilder_default ==
    [type |-> "CreateProject", name_and_path |-> None,
     opt |-> [f \in OptionalFields |-> None], tag_list |-> {}]

\* CreateProjectBuilder::build: name_and_path is the one required field.
CreateProjectBuilder_build(self) ==
    IF self.name_and_path = None THEN Err(UninitializedField("name_and_path"))
    ELSE Ok([type |-> "CreateProject", name_and_path |-> self.name_and_path.value,
             opt |-> self.opt, tag_list |-> self.tag_list])

CreateProject_method(self) == "POST"
CreateProject_endpoint(self) == "projects"

\* push_opt of the fields of a list, in its order.
PushFields(self, params, fields) ==
    LET pushed[i \in 0..Len(fields)] ==
            IF i = 0 THEN params
            ELSE push_opt(pushed[i - 1], fields[i].name,
                          OptValue(fields[i].type, self.opt[fields[i].name]))
    IN  pushed[Len(fields)]

\* A body() that would push path before name.
CreateProject_body_path_first(self) ==
    LET n == self.name_and_path
        p0 == IF n.kind = "Name" THEN push(<<>>, "name", n.name)
              ELSE IF n.kind = "Path" THEN push(<<>>, "path", n.path)
              ELSE push(push(<<>>, "path", n.path), "name", n.name)
        p1 == PushFields(self, p0, FieldsBeforeTags)
        tags == SortedTags(self.tag_list)
        p2 == extend(p1, [i \in 1..Len(tags) |-> Pair("tag_list[]", tags[i])])
        p3 == PushFields(self, p2, FieldsAfterTags)
        p4 == IF self.opt[PolicyField] = None THEN p3
              ELSE ContainerExpirationPolicy_add_query(self.opt[PolicyField].value, p3)
    IN  PushFields(self, p4, DeprecatedFields)

CreateProject_body(self) ==
    LET n == self.name_and_path
        p0 == IF n.kind = "Name" THEN push(<<>>, "name", n.name)
              ELSE IF n.kind = "Path" THEN push(<<>>, "path", n.path)
              ELSE push(push(<<>>, "name", n.name), "path", n.path)
        p1 == PushFields(self, p0, FieldsBeforeTags)
        tags == SortedTags(self.tag_list)
        p2 == extend(p1, [i \in 1..Len(tags) |-> Pair("tag_list[]", tags[i])])
        p3 == PushFields(self, p2, FieldsAfterTags)
        p4 == IF self.opt[PolicyField] = None THEN p3
              ELSE ContainerExpirationPolicy_add_query(self.opt[PolicyField].value, p3)
    IN  PushFields(self, p4, DeprecatedFields)

(***************************************************************************)
(* A caller drafting an endpoint, building it and handing it to a client.  *)
(***************************************************************************)
\* Most optional fields one CreateProject draft gets set.
MaxOptionals == 1

OptionalsSet(d) ==
    Cardinality({f \in OptionalFields : d.opt[f] # None}) + Cardinality(d.tag_list)

\* The same count, leaving out the fields of the set skip.
OptionalsBeside(d, skip) ==
    Cardinality({f \in OptionalFields \ skip : d.opt[f] # None}) + Cardinality(d.tag_list)

TemplateFields == {"group_with_project_templates_id", "use_custom_template"}

\* The two fields between which body() puts the tags; they and the tags do
\* not count against the bound when a tag is added.
TagNeighbours == {"request_access_enabled", "printing_merge_request_link_enabled"}
FieldsSetBeside(d, skip) == Cardinality({f \in OptionalFields \ skip : d.opt[f] # None})

NoDraft == draft = None /\ built_endpoint = None /\ Idling
Drafting(type) ==
    /\ draft # None
    /\ draft.type = type
    /\ built_endpoint = None
    /\ Idling

Untouched == UNCHANGED <<builder, ctor, gitlab, asyncGitlab, impersonation, call>>

CancelJob_builder ==
    /\ NoDraft
    /\ draft' = CancelJobBuilder_default
    /\ UNCHANGED built_endpoint
    /\ Untouched

CancelJobBuilder_project(project) ==
    /\ Drafting("CancelJob")
    /\ draft' = [draft EXCEPT !.project = Some(project)]
    /\ UNCHANGED built_endpoint
    /\ Untouched

CancelJobBuilder_job(job) ==
    /\ Drafting("CancelJob")
    /\ draft' = [draft EXCEPT !.job = Some(job)]
    /\ UNCHANGED built_endpoint
    /\ Untouched

CancelJob_build ==
    /\ Drafting("CancelJob")
    /\ built_endpoint' = CancelJobBuilder_build(draft)
    /\ UNCHANGED draft
    /\ Untouched

CompareCommits_builder ==
    /\ NoDraft
    /\ draft' = CompareCommitsBuilder_default
    /\ UNCHANGED built_endpoint
    /\ Untouched

CompareCommitsBuilder_project(project) ==
    /\ Drafting("CompareCommits")
    /\ draft' = [draft EXCEPT !.project = Some(project)]
    /\ UNCHANGED built_endpoint
    /\ Untouched

CompareCommitsBuilder_from(from) ==
    /\ Drafting("CompareCommits")
    /\ draft' = [draft EXCEPT !.from = Some(from)]
    /\ UNCHANGED built_endpoint
    /\ Untouched

CompareCommitsBuilder_to(to) ==
    /\ Drafting("CompareCommits")
    /\ draft' = [draft EXCEPT !.to = Some(to)]
    /\ UNCHANGED built_endpoint
    /\ Untouched

\* setter(strip_option): the field becomes Some(Some(value)); build() then
\* holds Some(value).
CompareCommitsBuilder_from_project_id(id) ==
    /\ Drafting("CompareCommits")
    /\ draft' = [draft EXCEPT !.from_project_id = Some(id)]
    /\ UNCHANGED built_endpoint
    /\ Untouched

CompareCommitsBuilder_straight(straight) ==
    /\ Drafting("CompareCommits")
    /\ draft' = [draft EXCEPT !.straight = Some(straight)]
    /\ UNCHANGED built_endpoint
    /\ Untouched

CompareCommitsBuilder_unidiff(unidiff) ==
    /\ Drafting("CompareCommits")
    /\ draft' = [draft EXCEPT !.unidiff = Some(unidiff)]
    /\ UNCHANGED built_endpoint
    /\ Untouched

CompareCommits_build ==
    /\ Drafting("CompareCommits")
    /\ built_endpoint' = CompareCommitsBuilder_build(draft)
    /\ UNCHANGED draft
    /\ Untouched

CreateProject_builder ==
    /\ NoDraft
    /\ draft' = CreateProjectBuilder_default
    /\ UNCHANGED built_endpoint
    /\ Untouched

CreateProjectBuilder_name(name) ==
    /\ Drafting("CreateProject")
    /\ draft' = [draft EXCEPT !.name_and_path =
                    Some(IF draft.name_and_path # None
                            THEN ProjectName_with_name(draft.name_and_path.value, name)
                            ELSE ProjectName_Name(name))]
    /\ UNCHANGED built_endpoint
    /\ Untouched

CreateProjectBuilder_path(path) ==
    /\ Drafting("CreateProject")
    /\ draft' = [draft EXCEPT !.name_and_path =
                    Some(IF draft.name_and_path # None
                            THEN ProjectName_with_path(draft.name_and_path.value, path)
                            ELSE ProjectName_Path(path))]
    /\ UNCHANGED built_endpoint
    /\ Untouched

\* The setter derive_builder makes for an optional field.
CreateProjectBuilder_set(field, value) ==
    /\ Drafting("CreateProject")
    /\ OptionalsSet(draft) < MaxOptionals
    /\ field # "group_with_project_templates_id"
    /\ draft' = [draft EXCEPT !.opt[field] = Some(value)]
    /\ UNCHANGED built_endpoint
    /\ Untouched

CreateProjectBuilder_tag(tag) ==
    /\ Drafting("CreateProject")
    /\ FieldsSetBeside(draft, TagNeighbours) < MaxOptionals
    /\ draft' = [draft EXCEPT !.tag_list = @ \cup {tag}]
    /\ UNCHANGED built_endpoint
    /\ Untouched

CreateProjectBuilder_tags(iter) ==
    /\ Drafting("CreateProject")
    /\ FieldsSetBeside(draft, TagNeighbours) < MaxOptionals
    /\ draft' = [draft EXCEPT !.tag_list = @ \cup iter]
    /\ UNCHANGED built_endpoint
    /\ Untouched

\* A group_with_project_templates_id that would leave use_custom_template alone.
CreateProjectBuilder_group_with_project_templates_id_only(id) ==
    /\ Drafting("CreateProject")
    /\ OptionalsBeside(draft, TemplateFields) < MaxOptionals
    /\ draft' = [draft EXCEPT !.opt["group_with_project_templates_id"] = Some(id)]
    /\ UNCHANGED built_endpoint
    /\ Untouched

\* The call writes two fields; the ones it overwrites do not count against
\* the bound.
CreateProjectBuilder_group_with_project_templates_id(id) ==
    /\ Drafting("CreateProject")
    /\ OptionalsBeside(draft, TemplateFields) < MaxOptionals
    /\ draft' = [draft EXCEPT !.opt["group_with_project_templates_id"] = Some(id),
                              !.opt["use_custom_template"] = Some(TRUE)]
    /\ UNCHANGED built_endpoint
    /\ Untouched

CreateProject_build ==
    /\ Drafting("CreateProject")
    /\ built_endpoint' = CreateProjectBuilder_build(draft)
    /\ UNCHANGED draft
    /\ Untouched

\* The Endpoint trait of the three endpoints.
Endpoint_method(e) ==
    CASE e.type = "CancelJob" -> CancelJob_method(e)
      [] e.type = "CompareCommits" -> CompareCommits_method(e)
      [] e.type = "CreateProject" -> CreateProject_method(e)
Endpoint_endpoint(e) ==
    CASE e.type = "CancelJob" -> CancelJob_endpoint(e)
      [] e.type = "CompareCommits" -> CompareCommits_endpoint(e)
      [] e.type = "CreateProject" -> CreateProject_endpoint(e)
Endpoint_parameters(e) ==
    IF e.type = "CompareCommits" THEN CompareCommits_parameters(e) ELSE <<>>
Endpoint_body(e) ==
    IF e.type = "CreateProject"
        THEN Some([content_type |-> "application/x-www-form-urlencoded",
                   params |-> CreateProject_body(e)])
        ELSE None

\* What Query::query hands to the client for endpoint e: method, URL under
\* the REST base with the query parameters, and body.
QueryRequest(self, e) ==
    LET url == rest_endpoint(self, <<Endpoint_endpoint(e)>>) IN
    [method |-> Endpoint_method(e),
     url |-> [scheme |-> url.scheme, host |-> url.host, path |-> url.path,
              query |-> Endpoint_parameters(e)],
     headers |-> <<>>, valid |-> "ok"]

\* Query::query / AsyncQuery::query_async of a built endpoint on a client.
Query_query(client, outcome) ==
    /\ Idling
    /\ built_endpoint # None
    /\ built_endpoint.ok
    /\ LET e == built_endpoint.value IN
       call' = Called(client, "query", "own", e.type, "ok", outcome,
                      IF client = "Gitlab"
                          THEN Gitlab_rest(gitlab, QueryRequest(gitlab, e),
                                           Endpoint_body(e), outcome)
                          ELSE AsyncGitlab_rest_async(
                                   asyncGitlab, QueryRequest(asyncGitlab, e),
                                   Endpoint_body(e), outcome))
    /\ UNCHANGED <<builder, ctor, gitlab, asyncGitlab, impersonation, draft,
                   built_endpoint>>

\* The caller lets go of the draft and of what it built.
Drop ==
    /\ draft # None
    /\ Idling
    /\ draft' = None
    /\ built_endpoint' = None
    /\ Untouched

InitEndpoint ==
    /\ builder = None
    /\ ctor = Idle
    /\ impersonation = None
    /\ call = None
    /\ draft = None
    /\ built_endpoint = None
    /\ LET a == AuthToken(<<"t", "1">>)
           sync == Gitlab_new_impl("https", "gitlab.example", a, CertDefault,
                                   ClientCertNone, TRUE, Accepted)
           async == AsyncGitlab_new_impl("https", "gitlab.example", a, CertDefault,
                                         ClientCertNone, TRUE, Accepted)
       IN  /\ gitlab = sync.result.value
           /\ asyncGitlab = async.result.value

EndpointNext ==
    \/ CancelJob_builder
    \/ \E p \in Projects : CancelJobBuilder_project(p)
    \/ \E j \in Jobs : CancelJobBuilder_job(j)
    \/ CancelJob_build
    \/ CompareCommits_builder
    \/ \E p \in Projects : CompareCommitsBuilder_project(p)
    \/ \E r \in Refs : CompareCommitsBuilder_from(r)
    \/ \E r \in Refs : CompareCommitsBuilder_to(r)
    \/ \E id \in ProjectIds : CompareCommitsBuilder_from_project_id(id)
    \/ \E b \in BOOLEAN : CompareCommitsBuilder_straight(b)
    \/ \E b \in BOOLEAN : CompareCommitsBuilder_unidiff(b)
    \/ CompareCommits_build
    \/ CreateProject_builder
    \/ \E n \in ProjectNames : CreateProjectBuilder_name(n)
    \/ \E p \in ProjectPaths : CreateProjectBuilder_path(p)
    \/ \E f \in OptionalFields : \E v \in ValuesOf(FieldType(f)) :
            CreateProjectBuilder_set(f, v)
    \/ \E t \in Tags : CreateProjectBuilder_tag(t)
    \/ \E ts \in SUBSET Tags : CreateProjectBuilder_tags(ts)
    \/ \E id \in ProjectIds : CreateProjectBuilder_group_with_project_templates_id(id)
    \/ CreateProject_build
    \/ \E c \in {"Gitlab", "AsyncGitlab"} : Query_query(c, Answer)
    \/ Return
    \/ Drop

SpecEndpoint == InitEndpoint /\ [][EndpointNext]_vars

\* A caller working on one CreateProject draft after another: names, paths
\* and tags given in every order, on drafts on which the settings about
\* access requests and merge request links have or have not been given.
WideNames == ProjectNames \cup {"My Project"}
WidePaths == ProjectPaths \cup {"my-project"}
NeighbourSettings == {None} \cup {Some(b) : b \in BOOLEAN}

InitProject ==
    /\ builder = None
    /\ ctor = Idle
    /\ impersonation = None
    /\ call = None
    /\ built_endpoint = None
    /\ asyncGitlab = None
    /\ gitlab = Gitlab_new_impl("https", "gitlab.example", AuthToken(<<"t", "1">>),
                                CertDefault, ClientCertNone, TRUE, Accepted).result.value
    /\ \E r \in NeighbourSettings, p \in NeighbourSettings :
            draft = [CreateProjectBuilder_default EXCEPT
                        !.opt["request_access_enabled"] = r,
                        !.opt["printing_merge_request_link_enabled"] = p]

ProjectNext ==
    \/ CreateProject_builder
    \/ \E n \in WideNames : CreateProjectBuilder_name(n)
    \/ \E p \in WidePaths : CreateProjectBuilder_path(p)
    \/ \E t \in Tags : CreateProjectBuilder_tag(t)
    \/ \E ts \in SUBSET Tags : CreateProjectBuilder_tags(ts)
    \/ CreateProject_build
    \/ Query_query("Gitlab", Answer)
    \/ Return
    \/ Drop

SpecProject == InitProject /\ [][ProjectNext]_vars

(***************************************************************************)
(* Properties of the endpoint drafts (SpecEndpoint).                       *)
(***************************************************************************)
\* The required fields of a draft, in declaration order.
RequiredFields(type) ==
    CASE type = "CancelJob" -> <<"project", "job">>
      [] type = "CompareCommits" -> <<"project", "from", "to">>
      [] type = "CreateProject" -> <<"name_and_path">>

\* The required fields draft d has not been given.
MissingFields(d) ==
    SelectSeq(RequiredFields(d.type), LAMBDA f : d[f] = None)

BuildDone == built_endpoint # None
Queried == call # None /\ call.op = "query"
SentRequest == call.done.wire[1].request

\* C15: build() on a draft of CancelJob, CompareCommits or CreateProject
\* that lacks a required field returns an error naming a field that is
\* missing, yields no endpoint, and no request is ever sent for it; with
\* project and job, with project, from and to, or with a name or a path,
\* build() returns the endpoint.
C15_RequiredFieldsChecked ==
    /\ BuildDone =>
        IF MissingFields(draft) # <<>>
            THEN /\ ~built_endpoint.ok
                 /\ built_endpoint.error.kind = "UninitializedField"
                 /\ \E i \in 1..Len(MissingFields(draft)) :
                        built_endpoint.error.field = MissingFields(draft)[i]
                 /\ call = None
            ELSE /\ built_endpoint.ok
                 /\ built_endpoint.value.type = draft.type
    /\ Queried =>
        /\ BuildDone
        /\ built_endpoint.ok
        /\ MissingFields(draft) = <<>>
        /\ Len(call.done.wire) = 1

C15_Witness ==
    /\ BuildDone
    /\ draft.type = "CompareCommits"
    /\ draft.project # None
    /\ draft.from # None
    /\ draft.to = None
    /\ ~built_endpoint.ok
    /\ built_endpoint.error.field = "to"

\* C16: when several required fields are missing the error names the first
\* of them in declaration order: a CancelJob draft with neither field, and
\* one with job alone, both fail with "`project` must be initialized".
C16_FirstMissingNamed ==
    (BuildDone /\ MissingFields(draft) # <<>>) =>
        /\ ~built_endpoint.ok
        /\ built_endpoint.error.field = MissingFields(draft)[1]
        /\ built_endpoint.error.message =
                "'" \o MissingFields(draft)[1] \o "' must be initialized"
        /\ (draft.type = "CancelJob" /\ draft.project = None) =>
                built_endpoint.error.message = "'project' must be initialized"

C16_Witness ==
    /\ BuildDone
    /\ draft.type = "CancelJob"
    /\ draft.project = None
    /\ draft.job # None
    /\ built_endpoint.error.message = "'project' must be initialized"

\* The keys of a parameter sequence from position k on.
KeysFrom(params, k) == {params[i].key : i \in k..Len(params)}

\* C17: the body of CreateProject starts with name=<v> and holds no path
\* key when only the name was set, starts with path=<v> and holds no name
\* key when only the path was set, and starts with name=<v> then path=<v>
\* when both were set, in whichever order the setters ran; every other
\* pair comes after them.
C17_NameAndPathFirst ==
    (Queried /\ call.q = "CreateProject") =>
        LET body == SentRequest.body.value.params
            n == draft.name_and_path.value
        IN  /\ Len(call.done.wire) = 1
            /\ n.kind = "Name" =>
                /\ body[1] = Pair("name", n.name)
                /\ KeysFrom(body, 2) \cap {"name", "path"} = {}
            /\ n.kind = "Path" =>
                /\ body[1] = Pair("path", n.path)
                /\ KeysFrom(body, 2) \cap {"name", "path"} = {}
            /\ n.kind = "NameAndPath" =>
                /\ body[1] = Pair("name", n.name)
                /\ body[2] = Pair("path", n.path)
                /\ KeysFrom(body, 3) \cap {"name", "path"} = {}

C17_Witness ==
    /\ Queried
    /\ call.q = "CreateProject"
    /\ draft.name_and_path.value.kind = "NameAndPath"
    /\ Len(SentRequest.body.value.params) = 3
    /\ SentRequest.body.value.params[1].key = "name"
    /\ SentRequest.body.value.params[2].key = "path"
    /\ SentRequest.body.value.params[3].key = "namespace_id"

\* The path component the claim gives for a project.
ProjectSegment(project) ==
    CASE project = NameOrId_Id(1) -> "1"
      [] project = NameOrId_Id(2048) -> "2048"
      [] project = NameOrId_Name(<<"simple", "/", "project">>) -> "simple%2Fproject"

JobSegment(job) == CASE job = 1 -> "1" [] job = 305 -> "305"

\* The endpoint path of the request sent, relative to the REST base.
SentEndpoint == SentRequest.url.path[Len(SentRequest.url.path)]

\* C18: a textual project path is percent-encoded into one path segment and
\* a numeric id is written in decimal: project "simple/project" gives
\* projects/simple%2Fproject/repository/compare for CompareCommits and
\* projects/simple%2Fproject/jobs/{job}/cancel for CancelJob.
C18_ProjectSegmentEncoded ==
    /\ (Queried /\ call.q = "CompareCommits") =>
            SentEndpoint = "projects/" \o ProjectSegment(draft.project.value)
                                \o "/repository/compare"
    /\ (Queried /\ call.q = "CancelJob") =>
            SentEndpoint = "projects/" \o ProjectSegment(draft.project.value)
                                \o "/jobs/" \o JobSegment(draft.job.value) \o "/cancel"

C18_Witness ==
    /\ Queried
    /\ call.q = "CancelJob"
    /\ draft.project.value.kind = "Name"
    /\ SentEndpoint = "projects/simple%2Fproject/jobs/305/cancel"

\* The pair a set optional field adds, none when it is unset.
IfSet(key, field, literal) ==
    IF field = None THEN <<>> ELSE <<Pair(key, literal)>>

\* C19: CompareCommits is a GET whose query holds from and to, always and
\* in that order, then from_project_id, straight and unidiff, each if and
\* only if it was set, in that order; a flag renders as true or false and
\* an id in decimal; nothing is dropped or merged.
C19_CompareQueryParams ==
    (Queried /\ call.q = "CompareCommits") =>
        /\ SentRequest.method = "GET"
        /\ SentRequest.url.query =
                <<Pair("from", draft.from.value), Pair("to", draft.to.value)>>
                \o IfSet("from_project_id", draft.from_project_id, "234876")
                \o IfSet("straight", draft.straight,
                         IF draft.straight = Some(TRUE) THEN "true" ELSE "false")
                \o IfSet("unidiff", draft.unidiff,
                         IF draft.unidiff = Some(TRUE) THEN "true" ELSE "false")

C19_Witness ==
    /\ Queried
    /\ call.q = "CompareCommits"
    /\ draft.from.value = draft.to.value
    /\ SentRequest.url.query =
            <<Pair("from", "main"), Pair("to", "main"),
              Pair("from_project_id", "234876"), Pair("unidiff", "true")>>

EnumTypes ==
    {"FeatureAccessLevel", "FeatureAccessLevelPublic", "MergeMethod",
     "BuildGitStrategy", "AutoDevOpsDeployStrategy"}

\* Variants and as_str of the enums of create.rs, by type name.
Enum_variants(type) ==
    CASE type = "FeatureAccessLevel" -> FeatureAccessLevel_variants
      [] type = "FeatureAccessLevelPublic" -> FeatureAccessLevelPublic_variants
      [] type = "ContainerExpirationCadence" -> ContainerExpirationCadence_variants
      [] type = "ContainerExpirationKeepN" -> ContainerExpirationKeepN_variants
      [] type = "ContainerExpirationOlderThan" -> ContainerExpirationOlderThan_variants
      [] type = "AutoDevOpsDeployStrategy" -> AutoDevOpsDeployStrategy_variants
      [] type = "MergeMethod" -> MergeMethod_variants
      [] type = "BuildGitStrategy" -> BuildGitStrategy_variants
Enum_as_str(type, v) ==
    CASE type = "FeatureAccessLevel" -> FeatureAccessLevel_as_str(v)
      [] type = "FeatureAccessLevelPublic" -> FeatureAccessLevelPublic_as_str(v)
      [] type = "ContainerExpirationCadence" -> ContainerExpirationCadence_as_str(v)
      [] type = "ContainerExpirationKeepN" -> ContainerExpirationKeepN_as_str(v)
      [] type = "ContainerExpirationOlderThan" -> ContainerExpirationOlderThan_as_str(v)
      [] type = "AutoDevOpsDeployStrategy" -> AutoDevOpsDeployStrategy_as_str(v)
      [] type = "MergeMethod" -> MergeMethod_as_str(v)
      [] type = "BuildGitStrategy" -> BuildGitStrategy_as_str(v)

\* The literal sets the claim gives.
Literals(type) ==
    CASE type = "FeatureAccessLevel" -> {"disabled", "private", "enabled"}
      [] type = "FeatureAccessLevelPublic" -> {"disabled", "private", "enabled", "public"}
      [] type = "ContainerExpirationCadence" -> {"1d", "7d", "14d", "1month", "3month"}
      [] type = "ContainerExpirationKeepN" -> {"1", "5", "10", "25", "50", "100"}
      [] type = "ContainerExpirationOlderThan" -> {"7d", "14d", "30d", "90d"}
      [] type = "AutoDevOpsDeployStrategy" -> {"continuous", "manual", "timed_incremental"}
      [] type = "MergeMethod" -> {"merge", "rebase_merge", "ff"}
      [] type = "BuildGitStrategy" -> {"clone", "fetch", "none"}

\* The enum values a built CreateProject holds: (key, type, variant).
EnumsSet(e) ==
    {<<f, FieldType(f), e.opt[f].value>> :
        f \in {g \in OptionalFields : FieldType(g) \in EnumTypes /\ e.opt[g] # None}}
    \cup
    (IF e.opt[PolicyField] = None THEN {}
     ELSE LET policy == e.opt[PolicyField].value IN
        {<<"container_expiration_policy_attributes[" \o x[1] \o "]", x[2],
           policy[x[1]].value>> :
            x \in {y \in {<<"cadence", "ContainerExpirationCadence">>,
                          <<"keep_n", "ContainerExpirationKeepN">>,
                          <<"older_than", "ContainerExpirationOlderThan">>} :
                        policy[y[1]] # None}})

\* C20: every enum of create-project renders each variant as one fixed
\* literal, the same through as_str and as_value and different from the
\* literals of the enum's other variants, and the literals are those of
\* the list: disabled/private/enabled (plus public), 1d..3month, 1..100,
\* 7d..90d, continuous/manual/timed_incremental, merge/rebase_merge/ff,
\* clone/fetch/none.
C20_EnumLiterals ==
    (Queried /\ call.q = "CreateProject") =>
        \A x \in EnumsSet(built_endpoint.value) :
            LET key == x[1]
                type == x[2]
                v == x[3]
                sent == {SentRequest.body.value.params[i].value :
                            i \in {j \in 1..Len(SentRequest.body.value.params) :
                                    SentRequest.body.value.params[j].key = key}}
            IN  /\ sent = {Enum_as_str(type, v)}
                /\ as_value(type, v) = Enum_as_str(type, v)
                /\ Enum_as_str(type, v) \in Literals(type)
                /\ {Enum_as_str(type, w) : w \in Enum_variants(type)} = Literals(type)
                /\ \A w \in Enum_variants(type) :
                        Enum_as_str(type, w) = Enum_as_str(type, v) => w = v

C20_Witness ==
    /\ Queried
    /\ call.q = "CreateProject"
    /\ built_endpoint.value.opt["merge_method"] = Some("FastForward")
    /\ \E i \in 1..Len(SentRequest.body.value.params) :
            SentRequest.body.value.params[i] = Pair("merge_method", "ff")

\* The pairs the body of the request sent holds under key.
BodyValues(key) ==
    LET params == SentRequest.body.value.params IN
    {params[i].value : i \in {j \in 1..Len(params) : params[j].key = key}}

\* A step of group_with_project_templates_id: the one call that writes the field.
TemplateGroupStep ==
    /\ draft # None
    /\ draft.type = "CreateProject"
    /\ built_endpoint = None
    /\ draft' # None
    /\ draft'.opt["group_with_project_templates_id"]
            # draft.opt["group_with_project_templates_id"]

\* What an endpoint with a template group sends.
TemplateGroupSent ==
    (Queried /\ call.q = "CreateProject"
        /\ built_endpoint.value.opt["group_with_project_templates_id"] # None
        /\ built_endpoint.value.opt["use_custom_template"] = Some(TRUE)) =>
        /\ BodyValues("group_with_project_templates_id") = {"234876"}
        /\ BodyValues("use_custom_template") = {"true"}

\* C21: group_with_project_templates_id(id) leaves the draft with that id
\* and with use_custom_template = true, whatever use_custom_template held
\* before the call, and an endpoint built from such a draft sends
\* group_with_project_templates_id=<id> and use_custom_template=true.
C21_TemplateGroupSetsCustomTemplate ==
    [][/\ TemplateGroupStep =>
            /\ draft'.opt["group_with_project_templates_id"] \in
                    {Some(id) : id \in ProjectIds}
            /\ draft'.opt["use_custom_template"] = Some(TRUE)
       /\ TemplateGroupSent']_vars

C21_Witness ==
    /\ Queried
    /\ call.q = "CreateProject"
    /\ built_endpoint.value.opt["group_with_project_templates_id"] = Some(234876)
    /\ BodyValues("group_with_project_templates_id") = {"234876"}
    /\ BodyValues("use_custom_template") = {"true"}

(***************************************************************************)
(* Properties of the builder and the constructors (SpecNew, Spec).         *)
(***************************************************************************)
\* A step after which the builder holds an OAuth2 token it did not hold.
BuilderToOAuth2 ==
    /\ builder # None
    /\ builder' # None
    /\ builder'.token # builder.token
    /\ builder'.token.kind = "OAuth2"

\* The same for the ImpersonationClient.
WrapperToOAuth2 ==
    /\ impersonation # None
    /\ impersonation' # None
    /\ impersonation'.auth # impersonation.auth
    /\ impersonation'.auth.kind = "OAuth2"

\* C22: oauth2_token, on GitlabBuilder and on ImpersonationClient, turns
\* Auth::Token(s) into Auth::OAuth2(s) with the same secret and changes
\* nothing else; on None, JobToken and OAuth2 it changes nothing, so a second
\* call changes nothing.
C22_OAuth2TokenConversion ==
    [][/\ BuilderToOAuth2 =>
            builder' = [builder EXCEPT !.token = AuthOAuth2(builder.token.secret)]
                /\ builder.token.kind = "Token"
       /\ WrapperToOAuth2 =>
            impersonation' =
                [impersonation EXCEPT !.auth = AuthOAuth2(impersonation.auth.secret)]
                /\ impersonation.auth.kind = "Token"
       /\ (builder' # None /\ builder'.token.kind = "OAuth2") =>
            (builder # None /\ builder.token.kind \in {"Token", "OAuth2"})
       /\ (impersonation' # None /\ impersonation'.auth.kind = "OAuth2") =>
            (impersonation # None /\ impersonation.auth.kind \in {"Token", "OAuth2"})]_vars

C22_Witness ==
    /\ builder # None
    /\ builder.token = AuthOAuth2(<<"t", "1">>)
    /\ impersonation # None
    /\ impersonation.auth = AuthOAuth2(<<"t", "\n">>)

\* The orders in which a constructor call can have taken its steps.
StepOrders ==
    {<<"url_parse">>,
     <<"url_parse", "parse_identity">>, <<"url_parse", "parse_root">>,
     <<"url_parse", "probe">>,
     <<"url_parse", "parse_identity", "probe">>,
     <<"url_parse", "parse_root", "probe">>}

\* The latest constructor call failed on its certificate or identity bytes.
MaterialFailed ==
    /\ Returned
    /\ ~ctor.result.ok
    /\ ctor.result.error.kind = "Communication"
    /\ ctor.result.error.source \in {"certificate", "identity"}

\* A step in which build or build_async is called on the builder (the other
\* constructor of this specification, new_self_signed, is called with a
\* well-formed host and a SelfSigned policy).
BuilderBuildStep ==
    /\ builder # None
    /\ ctor.pc # "await_probe"
    /\ ctor' # ctor
    /\ ctor'.cert_validation.policy # "SelfSigned"

HostMalformed == ~UrlParse(builder.protocol, builder.host, <<"">>).ok

\* The latest call got as far as parsing bytes that do not parse.
ParsedMalformed == MaterialMalformed /\ ParseCount(ctor.events) = 1

\* C23: a constructor call parses the base URLs, then resolves the transport
\* from the trust policy and the identity, then probes, and the first step
\* that fails decides the result: a malformed host gives UrlParse with no
\* certificate parsed and nothing sent; a certificate or identity failure
\* gives its error with no probe.
C23_ConstructionOrder ==
    [][/\ (ctor.kind # "none" => ctor.events \in StepOrders)'
       /\ UrlFailed' => ctor'.events = <<"url_parse">> /\ ctor'.wire = <<>>
       /\ BuilderBuildStep /\ HostMalformed => UrlFailed'
       /\ (Returned /\ ParsedMalformed => MaterialFailed)'
       /\ MaterialFailed' => ProbeCount(ctor'.events) = 0 /\ ctor'.wire = <<>>
       /\ (Returned /\ ProbeCount(ctor.events) = 0 => ~ctor.result.ok)']_vars

C23_Witness ==
    /\ UrlFailed
    /\ builder # None
    /\ builder.identity.format # "None"
    /\ builder.identity.bytes = "junk"
    /\ builder.cert_validation.policy = "Default"
    /\ ctor.identity = builder.identity
    /\ ctor.cert_validation = builder.cert_validation
    /\ HostMalformed

\* A step that leaves the caller with a builder other than the one held.
BuilderStep == builder # None /\ builder' # None /\ builder' # builder

\* The builder GitlabBuilder::new or new_unauthenticated hands back.
FreshBuilder(b) ==
    /\ b.protocol = "https"
    /\ b.cert_validation = CertDefault
    /\ b.identity = ClientCertNone
    /\ b.token.kind \in {"Token", "None"}

BuilderFields == {"protocol", "host", "token", "cert_validation", "identity"}

\* The step changes the builder's field f and no other field of it.
OnlyField(f) ==
    /\ builder'[f] # builder[f]
    /\ \A g \in BuilderFields \ {f} : builder'[g] = builder[g]

\* C24: on a GitlabBuilder insecure() changes only the protocol, to http, and
\* cert_insecure() only the trust policy, to Insecure; no later call on the
\* builder puts https or Default back (only a new builder has them); build
\* and build_async leave every field of the builder as it was.
C24_BuilderSettersIndependent ==
    [][/\ BuilderStep =>
            \/ FreshBuilder(builder')
            \/ OnlyField("protocol") /\ builder'.protocol = "http"
            \/ OnlyField("cert_validation") /\ builder'.cert_validation = CertInsecure
            \/ OnlyField("token")
            \/ OnlyField("identity")
       /\ ctor' # ctor => builder' = builder]_vars

C24_Witness ==
    /\ builder # None
    /\ builder.protocol = "http"
    /\ builder.cert_validation = CertDefault
    /\ builder.identity.format = "Pem"
    /\ builder.token.kind = "OAuth2"
    /\ Returned
    /\ ctor.kind = "async"
    /\ ctor.identity = builder.identity
    /\ ctor.cert_validation = builder.cert_validation
    /\ asyncGitlab # None
    /\ asyncGitlab.rest_url.scheme = "http"

\* C25: a GitlabBuilder never holds a trust policy other than Default or
\* Insecure, so every AsyncGitlab is built with one of the two; a SelfSigned
\* root only ever reaches new_impl together with ClientCert::None and for a
\* blocking client.
C25_SelfSignedOnlySyncWithoutIdentity ==
    /\ builder # None => builder.cert_validation \in {CertDefault, CertInsecure}
    /\ ctor.kind = "async" => ctor.cert_validation \in {CertDefault, CertInsecure}
    /\ asyncGitlab # None => asyncGitlab.client.roots = <<>>
    /\ (ctor.kind # "none" /\ ctor.cert_validation.policy = "SelfSigned") =>
            ctor.kind = "sync" /\ ctor.identity = ClientCertNone
    /\ (gitlab # None /\ gitlab.client.roots # <<>>) => gitlab.client.identity = None

C25_Witness ==
    /\ builder # None
    /\ builder.cert_validation = CertInsecure
    /\ builder.identity.format = "Der"
    /\ ctor.cert_validation.policy = "SelfSigned"
    /\ gitlab # None
    /\ Len(gitlab.client.roots) = 2

\* An AsyncGitlab built from a builder whose policy was switched to Insecure.
AsyncBuiltInsecure ==
    /\ asyncGitlab # None
    /\ asyncGitlab.client.accept_invalid_certs
    /\ ctor.cert_validation = CertInsecure

\* A step in which one of the blocking constructors is called directly (no
\* builder exists yet) and hands back a client.
DirectConstructStep == builder = None /\ ctor' # ctor /\ gitlab' # None

\* C26: the three insecure constructors pass new_impl the same protocol
\* (http), the same trust policy (Insecure) and the same identity (None) and
\* differ only in the Auth variant; new, new_job_token and with_oauth2 likewise
\* pass https with Default (new_self_signed being the one that passes a root).
C26_InsecureConstructorsAgree ==
    [][DirectConstructStep =>
        /\ ctor'.identity = ClientCertNone
        /\ gitlab'.rest_url.scheme = "http" => ctor'.cert_validation = CertInsecure
        /\ gitlab'.rest_url.scheme = "https" =>
            \/ ctor'.cert_validation = CertDefault
            \/ ctor'.cert_validation.policy = "SelfSigned" /\ gitlab'.auth.kind = "Token"]_vars

(***************************************************************************)
(* Properties of the CreateProject draft (SpecProject).                    *)
(***************************************************************************)
\* The name and the path a name_and_path field holds, if it holds them.
NameOf(n) ==
    IF n = None \/ n.value.kind = "Path" THEN None ELSE Some(n.value.name)
PathOf(n) ==
    IF n = None \/ n.value.kind = "Name" THEN None ELSE Some(n.value.path)

\* A step of name() or path(): the draft's name_and_path changes.
NameOrPathStep ==
    /\ draft # None
    /\ draft.type = "CreateProject"
    /\ draft' # None
    /\ draft'.name_and_path # draft.name_and_path

TagPositions(params) == {i \in 1..Len(params) : params[i].key = "tag_list[]"}
TagPairs(params) == SelectSeq(params, LAMBDA q : q.key = "tag_list[]")

\* The body sent for a CreateProject endpoint e holds its tags as the claim
\* says.
TagsInBody(e, params) ==
    LET tags == SortedTags(e.tag_list)
        at == TagPositions(params)
        first == CHOOSE i \in at : \A j \in at : i <= j
        last == CHOOSE i \in at : \A j \in at : j <= i
    IN  /\ Len(tags) = Cardinality(e.tag_list)
        /\ TagPairs(params) = [i \in 1..Len(tags) |-> Pair("tag_list[]", tags[i])]
        /\ \A i \in 1..(Len(tags) - 1) :
                \E a, b \in 1..Len(TagOrder) : a < b /\ TagOrder[a] = tags[i]
                                                    /\ TagOrder[b] = tags[i + 1]
        /\ at # {} =>
            /\ at = first..last
            /\ e.opt["request_access_enabled"] # None =>
                    first > 1 /\ params[first - 1].key = "request_access_enabled"
            /\ e.opt["printing_merge_request_link_enabled"] # None =>
                    /\ last < Len(params)
                    /\ params[last + 1].key = "printing_merge_request_link_enabled"
            /\ \A i \in 1..(first - 1) :
                    params[i].key \in {"name", "path", "request_access_enabled"}
            /\ \A i \in (last + 1)..Len(params) :
                    params[i].key = "printing_merge_request_link_enabled"

\* C28: whatever the calls of tag() and tags() and their order, the body holds
\* one tag_list[] pair per distinct tag, in ascending order of the tags, in one
\* run that follows request_access_enabled and precedes
\* printing_merge_request_link_enabled; a tag given twice appears once.
C28_TagsSortedOnce ==
    (Queried /\ call.q = "CreateProject") =>
        TagsInBody(built_endpoint.value, SentRequest.body.value.params)

C28_Witness ==
    /\ Queried
    /\ call.q = "CreateProject"
    /\ built_endpoint.value.tag_list = Tags
    /\ built_endpoint.value.opt["request_access_enabled"] = Some(FALSE)
    /\ built_endpoint.value.opt["printing_merge_request_link_enabled"] = Some(TRUE)
    /\ Len(SentRequest.body.value.params) = 5
    /\ SentRequest.body.value.params[3] = Pair("tag_list[]", "alpha")
    /\ SentRequest.body.value.params[4] = Pair("tag_list[]", "beta")

(***************************************************************************)
(* Properties of the raw REST dispatch (SpecDispatch).                     *)
(***************************************************************************)
\* A rest / rest_async call, made on a client or through the wrapper.
RestCalled == call # None /\ call.op = "rest"

\* C29: the response rest_auth / rest_async_auth returns carries the status,
\* the HTTP version, the body and every header name/value pair of the
\* transport's response, several values under one name included, in order.
C29_ResponseCarriesAll ==
    (RestCalled /\ call.done.result.ok) =>
        /\ call.done.result.value.status = call.outcome.status
        /\ call.done.result.value.version = call.outcome.version
        /\ call.done.result.value.body = call.outcome.body
        /\ call.done.result.value.headers = call.outcome.headers

\* What made a rest call return an error, by the first step that failed.
RestFailure ==
    IF ~set_header(CallAuth, <<>>).ok THEN [kind |-> "AuthError"]
    ELSE IF call.valid = "not_convertible"
        THEN [kind |-> "Communication", source |-> "convert"]
    ELSE IF ~call.outcome.sent THEN [kind |-> "Communication", source |-> "send"]
    ELSE IF ~call.outcome.readOk THEN [kind |-> "Communication", source |-> "body"]
    ELSE None

\* C30: rest_auth and rest_async_auth do not look at the status: whenever
\* the transport answered and the body could be read they return Ok with the
\* status and the unparsed body, 5xx included; every error they return is
\* ApiError::client of the step that failed (auth header, conversion, send,
\* body read), and after an auth-header failure nothing was sent.  (A request
\* builder that holds an error makes them panic before any of this.)
C30_NoStatusClassification ==
    (RestCalled /\ call.valid # "builder_error") =>
        /\ call.done.result.ok <=> RestFailure = None
        /\ call.done.result.ok =>
            /\ call.done.result.value.status = call.outcome.status
            /\ call.done.result.value.body = call.outcome.body
            /\ Len(call.done.wire) = 1
        /\ ~call.done.result.ok =>
            /\ call.done.result = Err(ApiErrorClient(RestFailure))
            /\ RestFailure.kind = "AuthError" => call.done.wire = <<>>

C30_Witness ==
    /\ RestCalled
    /\ call.client = "Gitlab"
    /\ call.outcome.sent
    /\ call.outcome.status = 500
    /\ call.done.result.ok
    /\ call.done.result.value.status = 500
    /\ call.done.bodyRead

====
